---- MODULE Spec2Model ----
(***************************************************************************)
(* A model of matdb: an embedded multidimensional store.  Blocks are dense *)
(* arrays with absent slots, a transaction stages its writes in temporary  *)
(* segment files and commits by renaming them, Database::open recovers the *)
(* committed set from the file names, and a Scan merges the rows of all    *)
(* visible sources.                                                        *)
(***************************************************************************)
EXTENDS Integers, Sequences, FiniteSets, TLC

VARIABLES
    dir,                    \* the database directory: file name -> file content
    pc,                     \* "closed" | "idle" | "txn" | "commit"; "scan" | "scan_done"
    next_transaction_id,    \* Database.next_transaction_id
    committed_segments,     \* Database.committed_segments
    txn_id,                 \* Transaction.id: <<>> is None, <<t>> is Some(t)
    horizon,                \* Transaction.horizon
    unsaved_blocks,         \* Transaction.unsaved_blocks: BlockKey -> Block
    uncommitted_segments,   \* Transaction.uncommitted_segments
    lastOp,                 \* the operation that produced this state
    rows,                   \* the rows the last query() yielded before its first None
    hist,                   \* history: what the properties compare the state with
    scan,                   \* a Scan being stepped (specification SpecScan)
    emitted,                \* the results of the Scan.next calls made so far
    test_block,             \* a Block on its own (specification SpecBlock)
    added,                  \* coordinate -> value of the last add_row at it
    cache,                  \* a Cache on its own (specification SpecCache)
    rcs,                    \* the Rc allocations: value and strong count
    handles,                \* the Rc handles the callers of the Cache hold
    ret                     \* what the last call on the Cache returned

vars == <<dir, pc, next_transaction_id, committed_segments, txn_id, horizon,
          unsaved_blocks, uncommitted_segments, lastOp, rows, hist, scan, emitted,
          test_block, added, cache, rcs, handles, ret>>

scanVars == <<scan, emitted>>

blockVars == <<test_block, added>>

cacheVars == <<cache, rcs, handles, ret>>

(***************************************************************************)
(* Bounds of the model and constants of the program.                       *)
(***************************************************************************)
MaxDatum == 1          \* dimension values are 0..MaxDatum
MaxValue == 2          \* row values are 1..MaxValue
MaxRows == 2           \* add_row calls in one behaviour
MaxSegs == 2           \* segments a transaction may flush
MaxTxnId == 2          \* transaction ids the database hands out
MaxFaults == 1         \* crashes and failed file operations in one behaviour
ScanMaxDatum == 2      \* largest first coordinate of a row: two chunks on the first axis
MaxScanRows == 2       \* rows of one source of a Scan
MaxBlockDatum == 2     \* the coordinates of a Block on its own are 0..MaxBlockDatum
MaxDims == 3           \* dimensions of a Block on its own
MaxBlockOps == 3       \* add_row calls and slot writes on a Block on its own
MaxKeys == 2           \* keys of a Cache on its own are 1..MaxKeys
MaxRcs == 3            \* Rc allocations alive at a time
MaxHandles == 2        \* handles the callers of a Cache hold at a time
MaxUseCount == 2       \* Cache.get stops raising use_count here
MaxParts == 4          \* dot-separated parts of a file name
MaxSavedDims == 2      \* dimensions of a block that is saved and loaded
MaxSkipBytes == 5      \* bytes before the reader that skips to a tag
NumDims == 2           \* dimensions of the schema
MAX_FIND_ATTEMPTS == 10
HexWidth == 8          \* {:08x}
ChunkSize == <<2, 2>>  \* Dimension.chunk_size per dimension

None == <<>>
Some(x) == <<x>>
IsSome(o) == o # <<>>
Unwrap(o) == o[1]

Range(s) == {s[i] : i \in 1..Len(s)}

RECURSIVE Product(_)
Product(s) == IF s = <<>> THEN 1 ELSE Head(s) * Product(Tail(s))

RECURSIVE SeqsOfSet(_)
\* every ordering of a finite set: the orders in which a HashMap or HashSet
\* may be iterated
SeqsOfSet(S) ==
    IF S = {} THEN {<<>>}
    ELSE UNION {{<<x>> \o t : t \in SeqsOfSet(S \ {x})} : x \in S}

InsertAt(s, i, x) == SubSeq(s, 1, i) \o <<x>> \o SubSeq(s, i + 1, Len(s))

(***************************************************************************)
(* lib: compare_points, the lexicographic comparison of the first n        *)
(* elements of two points (-1 less, 0 equal, 1 greater).                   *)
(***************************************************************************)
RECURSIVE ComparePointsFrom(_, _, _, _)
ComparePointsFrom(i, n, a, b) ==
    IF i > n THEN 0
    ELSE IF a[i] < b[i] THEN -1
    ELSE IF a[i] > b[i] THEN 1
    ELSE ComparePointsFrom(i + 1, n, a, b)

compare_points(n, a, b) == ComparePointsFrom(1, n, a, b)

(***************************************************************************)
(* block.rs: Block.  Indexes are 0-based as in the code; s[i + 1] reads    *)
(* element i of a Vec.                                                     *)
(***************************************************************************)
Block_new(num_dimensions) ==
    [dimension_values |-> [i \in 1..num_dimensions |-> <<>>], values |-> <<>>]

\* a search that never finds the value; C13 tells it from binary_search
binary_search_miss(s, v) ==
    [ok |-> FALSE, idx |-> Cardinality({i \in 1..Len(s) : s[i] < v})]

\* Vec::binary_search on a strictly increasing Vec: Ok(idx) or Err(insertion idx)
binary_search(s, v) ==
    IF \E i \in 1..Len(s) : s[i] = v
    THEN [ok |-> TRUE, idx |-> (CHOOSE i \in 1..Len(s) : s[i] = v) - 1]
    ELSE [ok |-> FALSE, idx |-> Cardinality({i \in 1..Len(s) : s[i] < v})]

get_slice_insertion_params(block, dim_no, index) ==
    LET sizes == [i \in 1..Len(block.dimension_values) |-> Len(block.dimension_values[i])]
        num_moves == Product(SubSeq(sizes, 1, dim_no))
        move_step == Product(SubSeq(sizes, dim_no + 2, Len(sizes)))
        move_size == sizes[dim_no + 1] * move_step
        new_size == num_moves * (sizes[dim_no + 1] + 1) * move_step
        current_size == num_moves * move_size
        move_offset == move_step * index
    IN  [new_size |-> new_size,
         moves |-> IF move_size = 0 \/ move_offset >= current_size THEN 0 ELSE num_moves,
         len |-> move_size,
         step |-> move_step,
         offset |-> move_offset]

\* Vec::resize(new_size, None)
resize(values, new_size) ==
    [i \in 1..new_size |-> IF i <= Len(values) THEN values[i] ELSE None]

copy_elements(values, from_idx, to_idx, num) ==
    LET n == IF to_idx + num > Len(values) THEN Len(values) - to_idx ELSE num
    IN  [i \in 1..Len(values) |->
            IF i - 1 >= to_idx /\ i - 1 < to_idx + n
            THEN values[i - to_idx + from_idx]
            ELSE values[i]]

clear_elements(values, from_idx, to_idx) ==
    [i \in 1..Len(values) |->
        IF i - 1 >= from_idx /\ i - 1 < to_idx THEN None ELSE values[i]]

\* a move of the part of a region that lies behind the new slice only; C22 and
\* C23 tell it from SliceMove
SliceMoveTail(params, i) ==
    [from_offset |-> i * params.len + params.offset,
     to_offset |-> i * params.len + params.offset + (i + 1) * params.step,
     num |-> params.len - params.offset]

\* move i of insert_slice: the arguments it gives copy_elements
SliceMove(params, i) ==
    [from_offset |-> i * params.len + params.offset,
     to_offset |-> i * params.len + params.offset + (i + 1) * params.step,
     num |-> params.len]

RECURSIVE InsertSliceMoves(_, _, _)
\* the loop of insert_slice: for i in (0..moves).rev(), with k = i + 1 moves left
InsertSliceMoves(values, params, k) ==
    IF k = 0 THEN values
    ELSE LET move == SliceMove(params, k - 1)
         IN  InsertSliceMoves(
                 clear_elements(
                     copy_elements(values, move.from_offset, move.to_offset, move.num),
                     move.from_offset, move.to_offset),
                 params, k - 1)

insert_slice(block, dim_no, idx) ==
    LET params == get_slice_insertion_params(block, dim_no, idx)
    IN  [block EXCEPT !.values =
            InsertSliceMoves(resize(block.values, params.new_size), params, params.moves)]

\* returns the block and the index of the value on its axis
add_dimension_value(block, dim_no, value) ==
    LET found == binary_search(block.dimension_values[dim_no + 1], value)
    IN  IF found.ok THEN [block |-> block, idx |-> found.idx]
        ELSE LET b1 == insert_slice(block, dim_no, found.idx)
             IN  [block |-> [b1 EXCEPT !.dimension_values[dim_no + 1] =
                                 InsertAt(@, found.idx, value)],
                  idx |-> found.idx]

RECURSIVE GetIndexFrom(_, _, _)
GetIndexFrom(block, dim_indexes, i) ==
    IF i >= Len(dim_indexes) THEN 0
    ELSE (IF i < Len(block.dimension_values) - 1
          THEN Len(block.dimension_values[i + 2]) * dim_indexes[i + 1]
          ELSE dim_indexes[i + 1])
         + GetIndexFrom(block, dim_indexes, i + 1)

get_index(block, dim_indexes) == GetIndexFrom(block, dim_indexes, 0)

RECURSIVE AddDimensionValues(_, _, _, _)
\* the first loop of add_row: one add_dimension_value per dimension
AddDimensionValues(block, values, dim_no, dim_idxs) ==
    IF dim_no >= Len(block.dimension_values)
    THEN [block |-> block, dim_idxs |-> dim_idxs]
    ELSE LET r == add_dimension_value(block, dim_no, values[dim_no + 1])
         IN  AddDimensionValues(r.block, values, dim_no + 1, Append(dim_idxs, r.idx))

RECURSIVE StoreValues(_, _, _, _)
\* the second loop of add_row: every value column is written to the same slot
StoreValues(block, values, dim_idxs, value_no) ==
    IF value_no >= Len(values) THEN block
    ELSE StoreValues(
             [block EXCEPT !.values[get_index(block, dim_idxs) + 1] =
                               Some(values[value_no + 1])],
             values, dim_idxs, value_no + 1)

Block_add_row(block, values) ==
    LET r == AddDimensionValues(block, values, 0, <<>>)
    IN  StoreValues(r.block, values, r.dim_idxs, Len(block.dimension_values))

get_start_point(block) ==
    IF \E i \in 1..Len(block.dimension_values) : block.dimension_values[i] = <<>>
    THEN None
    ELSE Some([i \in 1..Len(block.dimension_values) |-> block.dimension_values[i][1]])

Block_iter(block) ==
    [block |-> block,
     indexes |-> [i \in 1..Len(block.dimension_values) |-> 0],
     value_index |-> 0]

RECURSIVE IncrementFrom(_, _, _)
\* the loop of increment_indexes, at position incr_pos
IncrementFrom(block, indexes, incr_pos) ==
    LET bumped == [indexes EXCEPT ![incr_pos + 1] = @ + 1]
    IN  IF bumped[incr_pos + 1] >= Len(block.dimension_values[incr_pos + 1])
        THEN IF incr_pos = 0 THEN bumped
             ELSE IncrementFrom(block, [bumped EXCEPT ![incr_pos + 1] = 0], incr_pos - 1)
        ELSE bumped

\* an increment that leaves value_index alone; C15 tells it from
\* increment_indexes
increment_indexes_stale(it) ==
    [it EXCEPT !.indexes = IncrementFrom(it.block, it.indexes, Len(it.indexes) - 1)]

increment_indexes(it) ==
    [it EXCEPT !.value_index = @ + 1,
               !.indexes = IncrementFrom(it.block, it.indexes, Len(it.indexes) - 1)]

RECURSIVE BlockIter_next(_)
\* returns the advanced iterator and the row: None or Some(row)
BlockIter_next(it) ==
    IF it.indexes[1] >= Len(it.block.dimension_values[1])
    THEN [iter |-> it, item |-> None]
    ELSE LET value == it.block.values[it.value_index + 1]
         IN  IF ~IsSome(value) THEN BlockIter_next(increment_indexes(it))
             ELSE [iter |-> increment_indexes(it),
                   item |-> Some([i \in 1..(Len(it.indexes) + 1) |->
                                    IF i <= Len(it.indexes)
                                    THEN it.block.dimension_values[i][it.indexes[i] + 1]
                                    ELSE Unwrap(value)])]

RECURSIVE BlockRowsFrom(_)
BlockRowsFrom(it) ==
    LET r == BlockIter_next(it)
    IN  IF r.item = None THEN <<>> ELSE <<Unwrap(r.item)>> \o BlockRowsFrom(r.iter)

\* every row Block.iter yields, in order
BlockRows(block) == BlockRowsFrom(Block_iter(block))

(***************************************************************************)
(* storage.rs: segment file names.  A file name is a sequence of           *)
(* one-character strings.                                                  *)
(***************************************************************************)
HexDigits == <<"0", "1", "2", "3", "4", "5", "6", "7", "8", "9",
               "a", "b", "c", "d", "e", "f">>

UpperHexDigits == <<"0", "1", "2", "3", "4", "5", "6", "7", "8", "9",
                    "A", "B", "C", "D", "E", "F">>

IsHexDigit(c) == \E i \in 1..16 : HexDigits[i] = c \/ UpperHexDigits[i] = c

HexValue(c) == (CHOOSE i \in 1..16 : HexDigits[i] = c \/ UpperHexDigits[i] = c) - 1

RECURSIVE HexOf(_)
\* the lowercase hexadecimal digits of n, without padding
HexOf(n) == IF n < 16 THEN <<HexDigits[n + 1]>>
            ELSE HexOf(n \div 16) \o <<HexDigits[(n % 16) + 1]>>

\* format!("{:08x}", n): zero-padded to at least HexWidth digits
FormatHex(n) ==
    LET d == HexOf(n)
    IN  [i \in 1..(IF Len(d) < HexWidth THEN HexWidth - Len(d) ELSE 0) |-> "0"] \o d

RECURSIVE ParseHexDigits(_, _)
ParseHexDigits(s, acc) ==
    IF s = <<>> THEN acc ELSE ParseHexDigits(Tail(s), acc * 16 + HexValue(Head(s)))

\* from_str_radix(s, 16).ok(): None for an empty or non-hexadecimal string;
\* one leading "+" is accepted
from_str_radix(s) ==
    LET digits == IF s # <<>> /\ Head(s) = "+" THEN Tail(s) ELSE s
    IN  IF digits = <<>> \/ \E i \in 1..Len(digits) : ~IsHexDigit(digits[i])
        THEN None
        ELSE Some(ParseHexDigits(digits, 0))

RECURSIVE SplitFrom(_, _, _)
\* str::split('.'): the parts between the dots, empty parts included
SplitFrom(s, i, part) ==
    IF i > Len(s) THEN <<part>>
    ELSE IF s[i] = "." THEN <<part>> \o SplitFrom(s, i + 1, <<>>)
    ELSE SplitFrom(s, i + 1, Append(part, s[i]))

Split(s) == SplitFrom(s, 1, <<>>)

TmpTail == <<"t", "m", "p">>

SCHEMA_FILENAME == <<"s", "c", "h", "e", "m", "a", ".", "j", "s", "o", "n">>

get_segment_path(seg_id, visible) ==
    FormatHex(seg_id[1]) \o <<".">> \o FormatHex(seg_id[2])
        \o (IF visible THEN <<>> ELSE <<".">> \o TmpTail)

\* None, or Some(<<txn_id, seg_num, committed>>)
decode_segment_path(filename) ==
    LET parts == Split(filename)
        txn == from_str_radix(parts[1])
    IN  IF txn = None \/ Len(parts) < 2 THEN None
        ELSE LET seg == from_str_radix(parts[2])
             IN  IF seg = None THEN None
                 ELSE IF Len(parts) < 3 THEN Some(<<Unwrap(txn), Unwrap(seg), TRUE>>)
                 ELSE IF parts[3] = TmpTail THEN Some(<<Unwrap(txn), Unwrap(seg), FALSE>>)
                 ELSE None

(***************************************************************************)
(* segment.rs: a segment file holds the blocks in the order they were      *)
(* written; it is complete once the END trailer is written.                *)
(***************************************************************************)
SegmentFile(blocks, complete) == [blocks |-> blocks, complete |-> complete]

\* the blocks a Segment hands to a scan: all blocks of the segment
Segment_cached_blocks(blocks) == blocks

\* Segment::create on success: the in-memory Segment of a new temp file
Segment_create(seg_id, blocks) ==
    [id |-> seg_id, path |-> get_segment_path(seg_id, FALSE),
     cached_blocks |-> Segment_cached_blocks(blocks)]

\* Segment::load: the visible file if it exists, else the temp file;
\* None when the file cannot be opened or has no END trailer
Segment_load(d, seg_id) ==
    LET path == IF get_segment_path(seg_id, TRUE) \in DOMAIN d
                THEN get_segment_path(seg_id, TRUE)
                ELSE get_segment_path(seg_id, FALSE)
    IN  IF path \notin DOMAIN d \/ ~d[path].complete THEN None
        ELSE Some([id |-> seg_id, path |-> path,
                   cached_blocks |-> Segment_cached_blocks(d[path].blocks)])

\* DatabaseScanSource::get_segment: the cached Segment, or the loaded one
get_segment(d, seg_id) == Segment_load(d, seg_id)

(***************************************************************************)
(* scan.rs: the queue is a std BinaryHeap over QueuedItem, whose Ord is    *)
(* the reverse of compare_points on the start points.  data is the heap's  *)
(* Vec; positions are 0-based.                                             *)
(***************************************************************************)
\* a <= b in QueuedItem's order
QueuedItem_le(a, b) ==
    compare_points(Len(a.start_point), a.start_point, b.start_point) # -1

RECURSIVE sift_up(_, _, _, _)
\* the hole is at pos and elem is the element taken out of it
sift_up(data, start, pos, elem) ==
    IF pos > start
    THEN LET parent == (pos - 1) \div 2
         IN  IF QueuedItem_le(elem, data[parent + 1])
             THEN [data EXCEPT ![pos + 1] = elem]
             ELSE sift_up([data EXCEPT ![pos + 1] = data[parent + 1]], start, parent, elem)
    ELSE [data EXCEPT ![pos + 1] = elem]

RECURSIVE sift_down_to_bottom(_, _, _, _)
sift_down_to_bottom(data, start, pos, elem) ==
    LET end == Len(data)
        child == 2 * pos + 1
    IN  IF end >= 2 /\ child <= end - 2
        THEN LET c == IF QueuedItem_le(data[child + 1], data[child + 2])
                      THEN child + 1 ELSE child
             IN  sift_down_to_bottom([data EXCEPT ![pos + 1] = data[c + 1]], start, c, elem)
        ELSE IF child = end - 1
        THEN sift_up([data EXCEPT ![pos + 1] = data[child + 1]], start, child, elem)
        ELSE sift_up(data, start, pos, elem)

\* BinaryHeap::push
Heap_push(data, item) == sift_up(Append(data, item), 0, Len(data), item)

\* BinaryHeap::pop on a non-empty heap: the greatest item and the heap left
Heap_pop(data) ==
    LET last == data[Len(data)]
        rest == SubSeq(data, 1, Len(data) - 1)
    IN  IF rest = <<>> THEN [item |-> last, data |-> rest]
        ELSE [item |-> rest[1], data |-> sift_down_to_bottom(rest, 0, 0, last)]

QueuedItem(start_point, item_type, payload) ==
    [start_point |-> start_point, item_type |-> item_type, payload |-> payload]

Scan_new(num_dims, this_txn_id) ==
    [num_dims |-> num_dims, this_txn_id |-> this_txn_id, queue |-> <<>>, live |-> <<>>]

add_segment_id(sc, seg_id) ==
    [sc EXCEPT !.queue = Heap_push(@, QueuedItem(<<0, 0>>, "SegmentId", seg_id))]

\* Iterator::min over the start points of the blocks that have one
MinStartPoint(blocks) ==
    LET pts == {Unwrap(get_start_point(blocks[i])) :
                    i \in {j \in 1..Len(blocks) : get_start_point(blocks[j]) # None}}
    IN  IF pts = {} THEN None
        ELSE Some(CHOOSE p \in pts : \A q \in pts : compare_points(Len(p), p, q) # 1)

add_segment(sc, segment) ==
    LET start_point == MinStartPoint(segment.cached_blocks)
    IN  IF start_point = None THEN sc
        ELSE [sc EXCEPT !.queue =
                 Heap_push(@, QueuedItem(Unwrap(start_point), "Segment", segment))]

add_block(sc, block) ==
    LET start_point == get_start_point(block)
    IN  IF start_point = None THEN sc
        ELSE [sc EXCEPT !.queue =
                 Heap_push(@, QueuedItem(Unwrap(start_point), "Block", block))]

add_segment_block(sc, rc, block) ==
    LET start_point == get_start_point(block)
    IN  IF start_point = None THEN sc
        ELSE [sc EXCEPT !.queue =
                 Heap_push(@, QueuedItem(Unwrap(start_point), "SegmentBlock",
                                         [rc |-> rc, block |-> block]))]

RECURSIVE AddSegmentBlocks(_, _, _)
\* check_queue, Type::Segment: one add_segment_block per cached block
AddSegmentBlocks(sc, rc, i) ==
    IF i > Len(rc.cached_blocks) THEN sc
    ELSE AddSegmentBlocks(add_segment_block(sc, rc, rc.cached_blocks[i]), rc, i + 1)

\* a block that goes live under the id of the querying transaction whatever its
\* source; C26 tells it from PushLive
PushLiveOwn(sc, block, live_txn_id, pin_rc) ==
    LET first == BlockIter_next(Block_iter(block))
    IN  IF first.item = None THEN sc
        ELSE [sc EXCEPT !.live = Append(@, [iter |-> first.iter,
                                            current |-> first.item,
                                            txn_id |-> sc.this_txn_id,
                                            pin_rc |-> pin_rc])]

\* check_queue, Type::Block and Type::SegmentBlock: the block goes live with its
\* first row, unless it has none
PushLive(sc, block, live_txn_id, pin_rc) ==
    LET first == BlockIter_next(Block_iter(block))
    IN  IF first.item = None THEN sc
        ELSE [sc EXCEPT !.live = Append(@, [iter |-> first.iter,
                                            current |-> first.item,
                                            txn_id |-> live_txn_id,
                                            pin_rc |-> pin_rc])]

RECURSIVE check_queue(_, _, _)
\* d is the directory the ScanSource loads segments from
check_queue(sc, current, d) ==
    IF sc.queue = <<>> THEN sc
    ELSE IF compare_points(sc.num_dims, sc.queue[1].start_point, current) = 1 THEN sc
    ELSE LET popped == Heap_pop(sc.queue)
             item == popped.item
             s1 == [sc EXCEPT !.queue = popped.data]
         IN  check_queue(
                 CASE item.item_type = "SegmentId" ->
                        LET opt_rc == get_segment(d, item.payload)
                        IN  IF opt_rc # None THEN add_segment(s1, Unwrap(opt_rc)) ELSE s1
                   [] item.item_type = "Segment" ->
                        AddSegmentBlocks(s1, item.payload, 1)
                   [] item.item_type = "Block" ->
                        PushLive(s1, item.payload, s1.this_txn_id, None)
                   [] item.item_type = "SegmentBlock" ->
                        PushLive(s1, item.payload.block, item.payload.rc.id[1],
                                 Some(item.payload.rc.id)),
                 current, d)

RECURSIVE LowestPoint(_, _, _, _)
\* Scan::next, first loop: the lowest current row of the live set, if it is below
\* the head of the queue
LowestPoint(sc, i, current, need_to_deqeue) ==
    IF i > Len(sc.live) THEN [current |-> current, need_to_deqeue |-> need_to_deqeue]
    ELSE IF current = None
            \/ compare_points(sc.num_dims, Unwrap(sc.live[i].current), Unwrap(current)) = -1
         THEN LowestPoint(sc, i + 1, sc.live[i].current, FALSE)
         ELSE LowestPoint(sc, i + 1, current, need_to_deqeue)

RECURSIVE BestRowWinnerOnly(_, _, _, _, _)
\* a second loop in which only the winning item advances; C7 tells it from BestRow
BestRowWinnerOnly(sc, i, current_point, best_txn_id, best_row) ==
    IF i > Len(sc.live)
    THEN [sc |-> sc, best_txn_id |-> best_txn_id, best_row |-> best_row]
    ELSE LET item == sc.live[i]
         IN  IF compare_points(sc.num_dims, Unwrap(item.current), current_point) = 0
                /\ item.txn_id > best_txn_id
             THEN LET nxt == BlockIter_next(item.iter)
                  IN  BestRowWinnerOnly([sc EXCEPT !.live[i].current = nxt.item,
                                                   !.live[i].iter = nxt.iter],
                                        i + 1, current_point, item.txn_id, item.current)
             ELSE BestRowWinnerOnly(sc, i + 1, current_point, best_txn_id, best_row)

RECURSIVE BestRow(_, _, _, _, _)
\* Scan::next, second loop: every live item at current_point advances; the first
\* one whose txn_id exceeds best_txn_id provides the row
BestRow(sc, i, current_point, best_txn_id, best_row) ==
    IF i > Len(sc.live)
    THEN [sc |-> sc, best_txn_id |-> best_txn_id, best_row |-> best_row]
    ELSE LET item == sc.live[i]
         IN  IF compare_points(sc.num_dims, Unwrap(item.current), current_point) = 0
             THEN LET nxt == BlockIter_next(item.iter)
                      advanced == [sc EXCEPT !.live[i].current = nxt.item,
                                             !.live[i].iter = nxt.iter]
                  IN  IF item.txn_id > best_txn_id
                      THEN BestRow(advanced, i + 1, current_point, item.txn_id, item.current)
                      ELSE BestRow(advanced, i + 1, current_point, best_txn_id, best_row)
             ELSE BestRow(sc, i + 1, current_point, best_txn_id, best_row)

\* a clean-up that keeps every item; C36 tells it from Retain
RetainAll(live) == live

\* Vec::retain(|x| x.current.is_some())
RECURSIVE Retain(_)
Retain(live) ==
    IF live = <<>> THEN <<>>
    ELSE IF Head(live).current # None THEN <<Head(live)>> \o Retain(Tail(live))
    ELSE Retain(Tail(live))

\* Scan::next: the scan after the call and its result, None or Some(QueryRow)
Scan_next(sc, d) ==
    LET peek == IF sc.queue = <<>> THEN None ELSE Some(sc.queue[1].start_point)
        low == LowestPoint(sc, 1, peek, TRUE)
    IN  IF low.current = None THEN [scan |-> sc, result |-> None]
        ELSE LET current_point == Unwrap(low.current)
                 s1 == IF low.need_to_deqeue THEN check_queue(sc, current_point, d) ELSE sc
                 best == BestRow(s1, 1, current_point, 0, None)
             IN  [scan |-> [best.sc EXCEPT !.live = Retain(@)],
                  result |-> IF best.best_row = None THEN None
                             ELSE Some([txn_id |-> best.best_txn_id,
                                        values_array |-> Unwrap(best.best_row)])]

RECURSIVE Drain(_, _)
\* the rows a for loop over the Scan receives: those before the first None
Drain(sc, d) ==
    LET r == Scan_next(sc, d)
    IN  IF r.result = None THEN <<>> ELSE <<Unwrap(r.result)>> \o Drain(r.scan, d)

(***************************************************************************)
(* schema.rs, database.rs                                                  *)
(***************************************************************************)
\* a key that is the same for every row; C30 tells it from get_chunk_key
get_one_chunk_key(values) == [i \in 1..NumDims |-> 0]

get_chunk_key(values) == [i \in 1..NumDims |-> values[i] \div ChunkSize[i]]

\* a filter that also leaves out the newest transaction below the horizon; C4
\* tells it from get_visible_committed_segments
visible_below_newest(committed, h) == {seg \in committed : seg[1] + 1 < h}

get_visible_committed_segments(committed, h) == {seg \in committed : seg[1] < h}

\* the segment ids and flags of the names of a directory that decode
DecodedNames(d) ==
    {Unwrap(decode_segment_path(f)) : f \in {g \in DOMAIN d : decode_segment_path(g) # None}}

SetMax(S) == CHOOSE x \in S : \A y \in S : y <= x

\* the largest id among the temp names only; C11 tells it from max_seen_txn_id
max_tmp_txn_id(d) ==
    IF {e \in DecodedNames(d) : ~e[3]} = {} THEN 0
    ELSE SetMax({e[1] : e \in {x \in DecodedNames(d) : ~x[3]}})

\* the largest id among the visible names only; C10 tells it from max_seen_txn_id
max_committed_txn_id(d) ==
    IF {e \in DecodedNames(d) : e[3]} = {} THEN 0
    ELSE SetMax({e[1] : e \in {x \in DecodedNames(d) : x[3]}})

\* max_seen_txn_id of scan_files: every decodable name counts, temp files too
max_seen_txn_id(d) ==
    IF DecodedNames(d) = {} THEN 0 ELSE SetMax({e[1] : e \in DecodedNames(d)})

\* scan_files: the ScanResult and the directory it leaves
scan_files(d) ==
    [next_transaction_id |-> max_seen_txn_id(d) + 1,
     committed_segments |-> {<<e[1], e[2]>> : e \in {x \in DecodedNames(d) : x[3]}},
     dir |-> [f \in {g \in DOMAIN d : decode_segment_path(g) = None
                                      \/ Unwrap(decode_segment_path(g))[3]} |-> d[f]]]

(***************************************************************************)
(* cache.rs: Cache.  An Rc is an index into rcs; its allocation holds the  *)
(* value and the strong count, and is free when the count is 0.            *)
(***************************************************************************)
FreeRc == [value |-> 0, strong |-> 0]

Cache_new(max_entries) ==
    [entries |-> <<>>, max_entries |-> max_entries, evictables |-> <<>>]

\* Rc::new(value): the allocation table and the new Rc
Rc_new(r, value) ==
    LET id == CHOOSE i \in 1..MaxRcs :
                    r[i].strong = 0 /\ \A j \in 1..(i - 1) : r[j].strong # 0
    IN  [rcs |-> [r EXCEPT ![id] = [value |-> value, strong |-> 1]], rc |-> id]

Rc_clone(r, id) == [r EXCEPT ![id].strong = @ + 1]

\* a drop that frees the value whoever else holds it; C16 tells it from Rc_drop
Rc_drop_frees(r, id) == [r EXCEPT ![id] = FreeRc]

\* an Rc is dropped: the value is freed when it was the last one
Rc_drop(r, id) ==
    IF r[id].strong = 1 THEN [r EXCEPT ![id] = FreeRc]
    ELSE [r EXCEPT ![id].strong = @ - 1]

RECURSIVE DropAll(_, _, _)
\* HashMap::clear: the Rc of every entry is dropped; keys is some order of the
\* keys, and the order does not change the outcome
DropAll(r, entries, keys) ==
    IF keys = <<>> THEN r
    ELSE DropAll(Rc_drop(r, entries[Head(keys)].rc), entries, Tail(keys))

\* the map without the key
WithoutKey(entries, key) == [k \in DOMAIN entries \ {key} |-> entries[k]]

\* an evict that removes the entry whoever holds its value; C29 tells it from
\* Cache_evict
Cache_evict_in_use(c, r, key) ==
    IF key \notin DOMAIN c.entries THEN [cache |-> c, rcs |-> r, result |-> FALSE]
    ELSE [cache |-> [c EXCEPT !.entries = WithoutKey(@, key)],
          rcs |-> Rc_drop(r, c.entries[key].rc),
          result |-> TRUE]

\* Cache::evict: the cache, the allocation table and the result
Cache_evict(c, r, key) ==
    IF key \notin DOMAIN c.entries THEN [cache |-> c, rcs |-> r, result |-> FALSE]
    ELSE IF r[c.entries[key].rc].strong > 1 THEN [cache |-> c, rcs |-> r, result |-> FALSE]
    ELSE [cache |-> [c EXCEPT !.entries = WithoutKey(@, key)],
          rcs |-> Rc_drop(r, c.entries[key].rc),
          result |-> TRUE]

\* a turn's tail that evicts the last evictable and leaves it queued; C35 tells
\* it from PopAndEvict
PopAndEvictQueued(c, r) ==
    IF c.evictables = <<>> THEN [cache |-> c, rcs |-> r]
    ELSE LET e == Cache_evict(c, r, c.evictables[Len(c.evictables)])
         IN  [cache |-> e.cache, rcs |-> e.rcs]

\* check_capacity, the tail of one turn of its loop: pop an evictable and evict it
PopAndEvict(c, r) ==
    IF c.evictables = <<>> THEN [cache |-> c, rcs |-> r]
    ELSE LET key == c.evictables[Len(c.evictables)]
             e == Cache_evict([c EXCEPT !.evictables = SubSeq(@, 1, Len(@) - 1)], r, key)
         IN  [cache |-> e.cache, rcs |-> e.rcs]

\* check_capacity, the search for evictables: entries whose use_count is 0 are
\* pushed in the order the HashMap yields them, the others are decremented
FindEvictables(c, order) ==
    [c EXCEPT !.evictables = @ \o order,
              !.entries = [k \in DOMAIN @ |->
                              IF @[k].use_count = 0 THEN @[k]
                              ELSE [@[k] EXCEPT !.use_count = @ - 1]]]

\* the orders in which the search may push the keys of zero: when none of them
\* can be evicted every order ends in the same cache, and one stands for all
PushOrders(c, r, zero) ==
    IF \E k \in zero : r[c.entries[k].rc].strong = 1 THEN SeqsOfSet(zero)
    ELSE {CHOOSE order \in SeqsOfSet(zero) : TRUE}

\* a capacity check that evicts nothing; C28 tells it from check_capacity
check_capacity_skipped(c, r, find_attempts) ==
    {[cache |-> c, rcs |-> r, find_attempts |-> find_attempts]}

RECURSIVE check_capacity(_, _, _)
\* Cache::check_capacity from a turn of its loop on: the set of outcomes, one
\* for every order in which the HashMap may be iterated, each with the value
\* find_attempts has when the function returns
check_capacity(c, r, find_attempts) ==
    IF Cardinality(DOMAIN c.entries) < c.max_entries
    THEN {[cache |-> c, rcs |-> r, find_attempts |-> find_attempts]}
    ELSE IF c.evictables # <<>>
    THEN LET p == PopAndEvict(c, r)
         IN  check_capacity(p.cache, p.rcs, find_attempts)
    ELSE IF find_attempts >= MAX_FIND_ATTEMPTS
    THEN {[cache |-> [c EXCEPT !.entries = <<>>],
           rcs |-> DropAll(r, c.entries,
                           CHOOSE keys \in SeqsOfSet(DOMAIN c.entries) : TRUE),
           find_attempts |-> find_attempts]}
    ELSE UNION {LET p == PopAndEvict(FindEvictables(c, order), r)
                IN  check_capacity(p.cache, p.rcs, find_attempts + 1) :
                    order \in PushOrders(c, r, {k \in DOMAIN c.entries :
                                                    c.entries[k].use_count = 0})}

\* Cache::add: the set of outcomes; the Rc passed in now belongs to the cache
Cache_add(c, r, key, rc) ==
    {[cache |-> [o.cache EXCEPT !.entries =
                    (key :> [use_count |-> 1, rc |-> rc]) @@ @],
      rcs |-> IF key \in DOMAIN o.cache.entries
              THEN Rc_drop(o.rcs, o.cache.entries[key].rc) ELSE o.rcs,
      find_attempts |-> o.find_attempts] :
        o \in check_capacity(c, r, 0)}

\* Cache::get: the cache, the allocation table and None or Some(rc)
Cache_get(c, r, key) ==
    IF key \notin DOMAIN c.entries THEN [cache |-> c, rcs |-> r, result |-> None]
    ELSE [cache |-> [c EXCEPT !.entries[key].use_count = @ + 1],
          rcs |-> Rc_clone(r, c.entries[key].rc),
          result |-> Some(c.entries[key].rc)]

(***************************************************************************)
(* The file system.                                                        *)
(***************************************************************************)
\* File::create and a complete write, or std::fs::rename's target
WriteFile(d, path, data) ==
    [f \in DOMAIN d \cup {path} |-> IF f = path THEN data ELSE d[f]]

\* a removal that removes nothing; C19 tells it from RemoveFiles
KeepFiles(d, paths) == d

RemoveFiles(d, paths) == [f \in DOMAIN d \ paths |-> d[f]]

RenameFile(d, from, to) == RemoveFiles(WriteFile(d, to, d[from]), {from})

(***************************************************************************)
(* The state: Database::create, and what a lost process leaves.            *)
(***************************************************************************)
Coords == (0..ScanMaxDatum) \X (0..MaxDatum)
RowValues == 1..MaxValue
NoWrites == [c \in {} |-> 0]

NoTransaction ==
    /\ txn_id' = None
    /\ horizon' = 0
    /\ unsaved_blocks' = <<>>
    /\ uncommitted_segments' = <<>>

HistInit ==
    [written |-> NoWrites,          \* coordinate -> value last written by this transaction
     flushed |-> {},                \* coordinates held by the segments it has flushed
     rewritten |-> {},              \* coordinates written again after a flush held them
     nrows |-> 0,                   \* add_row calls (on a Block alone: operations) so far
     last_add |-> None,             \* the row of the add_row just made
     segs_created |-> [t \in 1..MaxTxnId |-> 0],
     last_committed |-> NoWrites,   \* the writes of the last transaction whose commit returned Ok
     last_rewritten |-> {},
     ended_txn |-> None,            \* id of the transaction that ended last
     dir_before_open |-> <<>>,      \* the directory Database::open found
     ids_before_open |-> {},        \* the ids in the segment file names it found
     orphans |-> {},                \* temp files a failed create or rename left behind
     opened |-> FALSE,              \* the handle comes from Database::open
     crash_pc |-> "",               \* where the process was when it last stopped
     scan_seg_ids |-> {},           \* the SegmentIds the last query put on its queue
     created_next |-> 0,            \* next_transaction_id when the transaction was created
     assigned |-> <<>>,             \* the ids this handle has allocated, in order
     failed_seg |-> None,           \* the segment whose rename has just failed
     faults |-> 0]                  \* crashes and failed file operations so far

\* what an operation forgets of the operation before it
Forget(h) ==
    [h EXCEPT !.last_add = None, !.ended_txn = None, !.dir_before_open = <<>>,
              !.scan_seg_ids = {}, !.failed_seg = None]

DbInit ==
    /\ dir = (SCHEMA_FILENAME :> SegmentFile(<<>>, TRUE))
    /\ pc = "idle"
    /\ next_transaction_id = 1
    /\ committed_segments = {}
    /\ txn_id = None
    /\ horizon = 0
    /\ unsaved_blocks = <<>>
    /\ uncommitted_segments = <<>>
    /\ lastOp = "create"
    /\ rows = <<>>
    /\ hist = HistInit

NoScan == [num_dims |-> 0, this_txn_id |-> 0, queue |-> <<>>, live |-> <<>>]

\* no Block and no Cache is under test
NoBlockTest == test_block = Block_new(0) /\ added = <<>>

NoCacheTest ==
    /\ cache = Cache_new(0)
    /\ rcs = [i \in 1..MaxRcs |-> FreeRc]
    /\ handles = <<>>
    /\ ret = None

Init == DbInit /\ scan = NoScan /\ emitted = <<>> /\ NoBlockTest /\ NoCacheTest

(***************************************************************************)
(* database.rs, transaction.rs: the operations.                            *)
(***************************************************************************)
new_transaction ==
    /\ pc = "idle"
    /\ pc' = "txn"
    /\ horizon' = next_transaction_id
    /\ txn_id' = None
    /\ unsaved_blocks' = <<>>
    /\ uncommitted_segments' = <<>>
    /\ lastOp' = "new_transaction"
    /\ hist' = [Forget(hist) EXCEPT !.written = NoWrites, !.flushed = {},
                                    !.rewritten = {}, !.crash_pc = "",
                                    !.created_next = next_transaction_id]
    /\ rows' = <<>>
    /\ UNCHANGED <<dir, next_transaction_id, committed_segments, scanVars, blockVars,
                   cacheVars>>

\* add_row on the map of unsaved blocks: the block of the row's chunk, created
\* when the chunk has none, takes the row
add_row(blocks, values) ==
    LET key == get_chunk_key(values)
        block == IF key \in DOMAIN blocks THEN blocks[key] ELSE Block_new(NumDims)
    IN  (key :> Block_add_row(block, values)) @@ blocks

Transaction_add_row(values) ==
    /\ pc = "txn"
    /\ hist.nrows < MaxRows
    /\ LET c == <<values[1], values[2]>>
       IN  /\ unsaved_blocks' = add_row(unsaved_blocks, values)
           /\ hist' = [Forget(hist) EXCEPT
                   !.written = (c :> values[3]) @@ @,
                   !.rewritten = IF c \in hist.flushed THEN @ \cup {c} ELSE @,
                   !.nrows = @ + 1,
                   !.last_add = Some(values)]
    /\ lastOp' = "add_row"
    /\ rows' = <<>>
    /\ UNCHANGED <<dir, pc, next_transaction_id, committed_segments, txn_id, horizon,
                   uncommitted_segments, scanVars, blockVars, cacheVars>>

\* the coordinates of the rows of a sequence of blocks
BlocksCoords(blocks) ==
    UNION {{SubSeq(BlockRows(blocks[i])[k], 1, NumDims) : k \in 1..Len(BlockRows(blocks[i]))} :
              i \in 1..Len(blocks)}

\* an id taken anew from the database at every call; C27 tells it from
\* get_transaction_id
get_fresh_transaction_id == next_transaction_id

\* an id taken from below the horizon; C31 tells it from get_transaction_id
get_old_transaction_id == IF txn_id # None THEN Unwrap(txn_id) ELSE horizon - 1

\* get_transaction_id: the id of the transaction, allocated on first use
get_transaction_id == IF txn_id # None THEN Unwrap(txn_id) ELSE next_transaction_id

\* an allocation that leaves the counter alone; C12 tells it from NextIdAfterFlush
NextIdNotAdvanced == next_transaction_id

\* Database.next_transaction_id after get_transaction_id
NextIdAfterFlush == IF txn_id # None THEN next_transaction_id ELSE next_transaction_id + 1

CanAllocate == txn_id # None \/ next_transaction_id <= MaxTxnId

\* flush with blocks to save, Segment::create succeeding; order is the order in
\* which the HashMap yields the blocks
FlushOk(order) ==
    LET seg_id == <<get_transaction_id, Len(uncommitted_segments)>>
        blocks == [i \in 1..Len(order) |-> unsaved_blocks[order[i]]]
        new_segment == Segment_create(seg_id, blocks)
    IN  /\ unsaved_blocks # <<>>
        /\ CanAllocate
        /\ Len(uncommitted_segments) < MaxSegs
        /\ txn_id' = Some(get_transaction_id)
        /\ next_transaction_id' = NextIdAfterFlush
        /\ unsaved_blocks' = <<>>
        /\ dir' = WriteFile(dir, new_segment.path, SegmentFile(blocks, TRUE))
        /\ uncommitted_segments' = Append(uncommitted_segments, new_segment)
        /\ hist' = [Forget(hist) EXCEPT
                        !.segs_created[seg_id[1]] = IF txn_id = None THEN 1 ELSE @ + 1,
                        !.flushed = @ \cup BlocksCoords(blocks),
                        !.assigned = IF txn_id = None THEN Append(@, seg_id[1]) ELSE @]

\* flush with blocks to save, Segment::create failing: the blocks were taken out
\* of the transaction, and the temp file was created (and left incomplete) or not
FlushErr(created) ==
    LET seg_id == <<get_transaction_id, Len(uncommitted_segments)>>
    IN  /\ unsaved_blocks # <<>>
        /\ CanAllocate
        /\ hist.faults < MaxFaults
        /\ txn_id' = Some(get_transaction_id)
        /\ next_transaction_id' = NextIdAfterFlush
        /\ unsaved_blocks' = <<>>
        /\ dir' = IF created
                  THEN WriteFile(dir, get_segment_path(seg_id, FALSE), SegmentFile(<<>>, FALSE))
                  ELSE dir
        /\ hist' = [Forget(hist) EXCEPT
                        !.faults = @ + 1,
                        !.segs_created[seg_id[1]] = IF txn_id = None THEN 0 ELSE @,
                        !.orphans = IF created
                                    THEN @ \cup {get_segment_path(seg_id, FALSE)} ELSE @,
                        !.assigned = IF txn_id = None THEN Append(@, seg_id[1]) ELSE @]

\* an empty flush that allocates the transaction id all the same; C18 tells it
\* from FlushNothing
FlushNothingAllocates ==
    /\ unsaved_blocks = <<>>
    /\ CanAllocate
    /\ txn_id' = Some(get_transaction_id)
    /\ next_transaction_id' = NextIdAfterFlush
    /\ hist' = Forget(hist)
    /\ UNCHANGED <<dir, unsaved_blocks, uncommitted_segments>>

\* flush with nothing to save
FlushNothing ==
    /\ unsaved_blocks = <<>>
    /\ hist' = Forget(hist)
    /\ UNCHANGED <<dir, next_transaction_id, txn_id, unsaved_blocks, uncommitted_segments>>

flush ==
    /\ pc = "txn"
    /\ \/ FlushNothing
       \/ \E order \in SeqsOfSet(DOMAIN unsaved_blocks) : FlushOk(order)
       \/ \E created \in BOOLEAN : FlushErr(created) /\ UNCHANGED uncommitted_segments
    /\ lastOp' = "flush"
    /\ rows' = <<>>
    /\ UNCHANGED <<pc, committed_segments, horizon, scanVars, blockVars, cacheVars>>

\* a rollback that keeps the first segment's file; C8 tells it from rollback_segments
rollback_later_segments(segments) == {segments[i].path : i \in 2..Len(segments)}

\* a rollback that deletes every segment file of the directory; C33 tells it from
\* rollback_segments
rollback_every_segment(segments) == {f \in DOMAIN dir : decode_segment_path(f) # None}

\* rollback_segments: the paths of the temp files it deletes
rollback_segments(segments) == {segments[i].path : i \in 1..Len(segments)}

\* the end of a transaction that did not commit: Drop::drop
TransactionEnds(d, segments, op) ==
    /\ dir' = RemoveFiles(d, rollback_segments(segments))
    /\ NoTransaction
    /\ pc' = "idle"
    /\ lastOp' = op
    /\ rows' = <<>>
    /\ UNCHANGED <<scanVars, blockVars, cacheVars>>

rollback ==
    /\ pc = "txn"
    /\ TransactionEnds(dir, uncommitted_segments, "rollback")
    /\ hist' = [Forget(hist) EXCEPT !.ended_txn = txn_id]
    /\ UNCHANGED <<next_transaction_id, committed_segments>>

drop ==
    /\ pc = "txn"
    /\ TransactionEnds(dir, uncommitted_segments, "drop")
    /\ hist' = [Forget(hist) EXCEPT !.ended_txn = txn_id]
    /\ UNCHANGED <<next_transaction_id, committed_segments>>

\* commit, first half: self.flush()?
commit_flush ==
    /\ pc = "txn"
    /\ \/ /\ \/ FlushNothing
             \/ \E order \in SeqsOfSet(DOMAIN unsaved_blocks) : FlushOk(order)
          /\ pc' = "commit"
          /\ lastOp' = "commit_flush"
          /\ rows' = <<>>
          /\ UNCHANGED <<committed_segments, horizon, scanVars, blockVars, cacheVars>>
       \/ \E created \in BOOLEAN :
            LET seg_id == <<get_transaction_id, Len(uncommitted_segments)>>
                d1 == IF created
                      THEN WriteFile(dir, get_segment_path(seg_id, FALSE),
                                     SegmentFile(<<>>, FALSE))
                      ELSE dir
            IN  /\ unsaved_blocks # <<>>
                /\ CanAllocate
                /\ hist.faults < MaxFaults
                /\ next_transaction_id' = NextIdAfterFlush
                /\ TransactionEnds(d1, uncommitted_segments, "commit_failed")
                /\ hist' = [Forget(hist) EXCEPT
                                !.faults = @ + 1,
                                !.segs_created[seg_id[1]] = IF txn_id = None THEN 0 ELSE @,
                                !.orphans = IF created
                                            THEN @ \cup {get_segment_path(seg_id, FALSE)}
                                            ELSE @,
                                !.assigned = IF txn_id = None THEN Append(@, seg_id[1])
                                             ELSE @,
                                !.ended_txn = Some(get_transaction_id)]
                /\ UNCHANGED committed_segments

\* a turn of the loop that takes the first segment of the list, not the last; C21
\* tells it from commit_segment
commit_first_segment ==
    /\ pc = "commit"
    /\ uncommitted_segments # <<>>
    /\ LET segment == uncommitted_segments[1]
       IN  /\ dir' = RenameFile(dir, segment.path, get_segment_path(segment.id, TRUE))
           /\ committed_segments' = committed_segments \cup {segment.id}
    /\ uncommitted_segments' = Tail(uncommitted_segments)
    /\ lastOp' = "commit_segment"
    /\ rows' = <<>>
    /\ hist' = Forget(hist)
    /\ UNCHANGED <<pc, next_transaction_id, txn_id, horizon, unsaved_blocks, scanVars,
                   blockVars, cacheVars>>

\* commit_segments, one turn of the loop: pop, make_visible, add_committed_segment
commit_segment ==
    /\ pc = "commit"
    /\ uncommitted_segments # <<>>
    /\ LET segment == uncommitted_segments[Len(uncommitted_segments)]
       IN  /\ dir' = RenameFile(dir, segment.path, get_segment_path(segment.id, TRUE))
           /\ committed_segments' = committed_segments \cup {segment.id}
    /\ uncommitted_segments' = SubSeq(uncommitted_segments, 1, Len(uncommitted_segments) - 1)
    /\ lastOp' = "commit_segment"
    /\ rows' = <<>>
    /\ hist' = Forget(hist)
    /\ UNCHANGED <<pc, next_transaction_id, txn_id, horizon, unsaved_blocks, scanVars,
                   blockVars, cacheVars>>

\* commit_segments, make_visible failing: the popped segment is dropped with its
\* temp file in place, commit returns the error and the transaction is dropped
commit_segment_fails ==
    /\ pc = "commit"
    /\ uncommitted_segments # <<>>
    /\ hist.faults < MaxFaults
    /\ TransactionEnds(dir, SubSeq(uncommitted_segments, 1, Len(uncommitted_segments) - 1),
                       "commit_failed")
    /\ hist' = [Forget(hist) EXCEPT
                    !.faults = @ + 1, !.ended_txn = txn_id,
                    !.failed_seg = Some(uncommitted_segments[Len(uncommitted_segments)].id),
                    !.orphans = @ \cup {uncommitted_segments[Len(uncommitted_segments)].path}]
    /\ UNCHANGED <<next_transaction_id, committed_segments>>

\* commit returns Ok and the transaction is dropped
commit_ok ==
    /\ pc = "commit"
    /\ uncommitted_segments = <<>>
    /\ TransactionEnds(dir, uncommitted_segments, "commit_ok")
    /\ hist' = [Forget(hist) EXCEPT
                    !.ended_txn = txn_id,
                    !.last_committed = IF txn_id = None THEN @ ELSE hist.written,
                    !.last_rewritten = IF txn_id = None THEN @ ELSE hist.rewritten]
    /\ UNCHANGED <<next_transaction_id, committed_segments>>

RECURSIVE AddSegmentIds(_, _)
AddSegmentIds(sc, ids) ==
    IF ids = <<>> THEN sc ELSE AddSegmentIds(add_segment_id(sc, Head(ids)), Tail(ids))

RECURSIVE AddSegments(_, _)
AddSegments(sc, segments) ==
    IF segments = <<>> THEN sc ELSE AddSegments(add_segment(sc, Head(segments)), Tail(segments))

RECURSIVE AddBlocks(_, _)
AddBlocks(sc, blocks) ==
    IF blocks = <<>> THEN sc ELSE AddBlocks(add_block(sc, Head(blocks)), Tail(blocks))

\* Transaction::query: the Scan; seg_order and key_order are the orders in which
\* the HashSet of committed segments and the HashMap of unsaved blocks are iterated
Transaction_query(seg_order, key_order) ==
    AddBlocks(
        AddSegments(
            AddSegmentIds(Scan_new(NumDims, IF txn_id = None THEN 0 ELSE Unwrap(txn_id)),
                          seg_order),
            uncommitted_segments),
        [i \in 1..Len(key_order) |-> unsaved_blocks[key_order[i]]])

query ==
    /\ pc = "txn"
    /\ \E seg_order \in SeqsOfSet(get_visible_committed_segments(committed_segments, horizon)) :
       \E key_order \in SeqsOfSet(DOMAIN unsaved_blocks) :
            /\ rows' = Drain(Transaction_query(seg_order, key_order), dir)
            /\ hist' = [hist EXCEPT !.ended_txn = None, !.dir_before_open = <<>>,
                                    !.scan_seg_ids = Range(seg_order)]
    /\ lastOp' = "query"
    /\ UNCHANGED <<dir, pc, next_transaction_id, committed_segments, txn_id, horizon,
                   unsaved_blocks, uncommitted_segments, scanVars, blockVars, cacheVars>>

\* the process stops: the directory stays, the Database and its Transaction are lost
crash ==
    /\ pc \in {"txn", "commit"}
    /\ hist.faults < MaxFaults
    /\ pc' = "closed"
    /\ next_transaction_id' = 0
    /\ committed_segments' = {}
    /\ NoTransaction
    /\ lastOp' = "crash"
    /\ rows' = <<>>
    /\ hist' = [Forget(hist) EXCEPT !.faults = @ + 1, !.opened = FALSE, !.crash_pc = pc,
                                    !.assigned = <<>>]
    /\ UNCHANGED <<dir, scanVars, blockVars, cacheVars>>

\* the Database is dropped while no transaction borrows it
close ==
    /\ pc = "idle"
    /\ pc' = "closed"
    /\ next_transaction_id' = 0
    /\ committed_segments' = {}
    /\ NoTransaction
    /\ lastOp' = "close"
    /\ rows' = <<>>
    /\ hist' = [Forget(hist) EXCEPT !.opened = FALSE, !.crash_pc = "", !.assigned = <<>>]
    /\ UNCHANGED <<dir, scanVars, blockVars, cacheVars>>

Database_open ==
    /\ pc = "closed"
    /\ pc' = "idle"
    /\ next_transaction_id' = scan_files(dir).next_transaction_id
    /\ committed_segments' = scan_files(dir).committed_segments
    /\ dir' = scan_files(dir).dir
    /\ NoTransaction
    /\ lastOp' = "open"
    /\ hist' = [Forget(hist) EXCEPT !.dir_before_open = dir, !.opened = TRUE,
                                    !.orphans = {},
                                    !.ids_before_open = {e[1] : e \in DecodedNames(dir)}]
    /\ rows' = <<>>
    /\ UNCHANGED <<scanVars, blockVars, cacheVars>>

Next ==
    \/ new_transaction
    \/ \E c \in Coords, v \in RowValues : Transaction_add_row(<<c[1], c[2], v>>)
    \/ flush
    \/ query
    \/ rollback
    \/ drop
    \/ commit_flush
    \/ commit_segment
    \/ commit_segment_fails
    \/ commit_ok
    \/ crash
    \/ close
    \/ Database_open

Spec == Init /\ [][Next]_vars

(***************************************************************************)
(* The Scan of one query, stepped one Scan::next at a time.  The query is  *)
(* made by a transaction that finds the committed segment (1, 0) and has a *)
(* second source: another committed segment, an uncommitted segment of its *)
(* own, or its unsaved blocks.                                             *)
(***************************************************************************)
ScanCoords == (0..ScanMaxDatum) \X (0..MaxDatum)

RECURSIVE RowSeqs(_, _)
\* the sequences of at most n rows over ScanCoords with value v
RowSeqs(n, v) ==
    IF n = 0 THEN {<<>>}
    ELSE RowSeqs(n - 1, v)
         \cup {Append(r, <<c[1], c[2], v>>) : r \in RowSeqs(n - 1, v), c \in ScanCoords}

RECURSIVE AddRows(_, _)
AddRows(blocks, rowseq) ==
    IF rowseq = <<>> THEN blocks ELSE AddRows(add_row(blocks, Head(rowseq)), Tail(rowseq))

\* the blocks of a map in the given order of its keys
InOrder(blocks, order) == [i \in 1..Len(order) |-> blocks[order[i]]]

InitScan ==
    \E r1 \in RowSeqs(MaxScanRows, 1) \ {<<>>}, r2 \in RowSeqs(MaxScanRows, 2),
       kind \in {"committed", "uncommitted", "unsaved"}, own \in {None, Some(2)} :
    LET b1 == AddRows(<<>>, r1)
        b2 == AddRows(<<>>, r2)
    IN  \E o1 \in SeqsOfSet(DOMAIN b1), o2 \in SeqsOfSet(DOMAIN b2) :
        LET d1 == WriteFile((SCHEMA_FILENAME :> SegmentFile(<<>>, TRUE)),
                            get_segment_path(<<1, 0>>, TRUE),
                            SegmentFile(InOrder(b1, o1), TRUE))
            seg2 == Segment_create(<<2, 0>>, InOrder(b2, o2))
        IN  /\ kind # "unsaved" => r2 # <<>>
            /\ kind = "committed" => own = None
            /\ kind = "uncommitted" => own = Some(2)
            /\ dir = IF kind = "unsaved" THEN d1
                     ELSE WriteFile(d1, get_segment_path(<<2, 0>>, kind = "committed"),
                                    SegmentFile(InOrder(b2, o2), TRUE))
            /\ committed_segments =
                    IF kind = "committed" THEN {<<1, 0>>, <<2, 0>>} ELSE {<<1, 0>>}
            /\ next_transaction_id = 3
            /\ horizon = IF kind = "committed" THEN 3 ELSE 2
            /\ txn_id = own
            /\ unsaved_blocks = IF kind = "unsaved" THEN b2 ELSE <<>>
            /\ uncommitted_segments = IF kind = "uncommitted" THEN <<seg2>> ELSE <<>>
            /\ \E seg_order \in SeqsOfSet(get_visible_committed_segments(committed_segments,
                                                                         horizon)) :
                    scan = Transaction_query(seg_order, IF kind = "unsaved" THEN o2 ELSE <<>>)
    /\ pc = "scan"
    /\ lastOp = "query"
    /\ rows = <<>>
    /\ emitted = <<>>
    /\ hist = HistInit
    /\ NoBlockTest
    /\ NoCacheTest

\* one call of Scan::next by the for loop that consumes the Scan
Scan_step ==
    /\ pc = "scan"
    /\ LET r == Scan_next(scan, dir)
       IN  /\ scan' = r.scan
           /\ emitted' = IF r.result = None THEN emitted
                          ELSE Append(emitted, Unwrap(r.result))
           /\ pc' = IF r.result = None THEN "scan_done" ELSE "scan"
    /\ UNCHANGED <<dir, next_transaction_id, committed_segments, txn_id, horizon,
                   unsaved_blocks, uncommitted_segments, lastOp, rows, hist,
                   blockVars, cacheVars>>

NextScan == Scan_step

SpecScan == InitScan /\ [][NextScan]_vars

(***************************************************************************)
(* A Block on its own: Block::new(d), then add_row calls, and the write of *)
(* None into a slot that the unit tests of BlockIter make.                 *)
(***************************************************************************)
dbVars == <<dir, next_transaction_id, committed_segments, txn_id, horizon,
            unsaved_blocks, uncommitted_segments, rows, hist>>

\* no database is open
NoDatabase ==
    /\ dir = <<>>
    /\ next_transaction_id = 0
    /\ committed_segments = {}
    /\ txn_id = None
    /\ horizon = 0
    /\ unsaved_blocks = <<>>
    /\ uncommitted_segments = <<>>
    /\ rows = <<>>
    /\ hist = HistInit

\* the sizes of the dimensions of a block
Sizes(blk) == [i \in 1..Len(blk.dimension_values) |-> Len(blk.dimension_values[i])]

\* the coordinate of slot k of a dense row-major array, last dimension fastest
SlotCoord(blk, k) ==
    [i \in 1..Len(blk.dimension_values) |->
        blk.dimension_values[i][
            ((k \div Product(SubSeq(Sizes(blk), i + 1, Len(Sizes(blk)))))
                % Sizes(blk)[i]) + 1]]

InitBlock ==
    /\ \E d \in 1..MaxDims : test_block = Block_new(d)
    /\ added = <<>>
    /\ pc = "block"
    /\ lastOp = "new"
    /\ NoDatabase
    /\ scan = NoScan
    /\ emitted = <<>>
    /\ NoCacheTest

Block_add_row_step(values) ==
    /\ pc = "block"
    /\ hist.nrows < MaxBlockOps
    /\ Len(values) = Len(test_block.dimension_values) + 1
    /\ test_block' = Block_add_row(test_block, values)
    /\ added' = (SubSeq(values, 1, Len(values) - 1) :> values[Len(values)]) @@ added
    /\ lastOp' = "add_row"
    /\ hist' = [hist EXCEPT !.nrows = @ + 1]
    /\ UNCHANGED <<pc, dir, next_transaction_id, committed_segments, txn_id, horizon,
                   unsaved_blocks, uncommitted_segments, rows, scanVars, cacheVars>>

\* b.values[i] = None
clear_value(i) ==
    /\ pc = "block"
    /\ hist.nrows < MaxBlockOps
    /\ i < Len(test_block.values)
    /\ test_block.values[i + 1] # None
    /\ test_block' = [test_block EXCEPT !.values[i + 1] = None]
    /\ added' = [c \in DOMAIN added \ {SlotCoord(test_block, i)} |-> added[c]]
    /\ lastOp' = "clear"
    /\ hist' = [hist EXCEPT !.nrows = @ + 1]
    /\ UNCHANGED <<pc, dir, next_transaction_id, committed_segments, txn_id, horizon,
                   unsaved_blocks, uncommitted_segments, rows, scanVars, cacheVars>>

\* the rows add_row is given: d coordinates and one value
BlockInputs(d) ==
    {c \o <<v>> : c \in [1..d -> 0..MaxBlockDatum], v \in RowValues}

NextBlock ==
    \/ \E values \in BlockInputs(Len(test_block.dimension_values)) :
            Block_add_row_step(values)
    \/ \E i \in 0..(Len(test_block.values) - 1) : clear_value(i)

SpecBlock == InitBlock /\ [][NextBlock]_vars

(***************************************************************************)
(* A Cache on its own, and the callers that hold Rc handles.               *)
(***************************************************************************)
InitCache ==
    /\ \E max_entries \in 1..MaxKeys : cache = Cache_new(max_entries)
    /\ rcs = [i \in 1..MaxRcs |-> FreeRc]
    /\ handles = <<>>
    /\ ret = None
    /\ pc = "cache"
    /\ lastOp = "new"
    /\ NoDatabase
    /\ scan = NoScan
    /\ emitted = <<>>
    /\ NoBlockTest

\* the sequence without its element i
RemoveAt(s, i) == SubSeq(s, 1, i - 1) \o SubSeq(s, i + 1, Len(s))

\* cache.add(key, Rc::new(value)); with keep the caller clones the Rc first and
\* keeps the clone
add_fresh(key, value, keep) ==
    /\ pc = "cache"
    /\ \E i \in 1..MaxRcs : rcs[i].strong = 0
    /\ keep => Len(handles) < MaxHandles
    /\ LET n == Rc_new(rcs, value)
           r1 == IF keep THEN Rc_clone(n.rcs, n.rc) ELSE n.rcs
       IN  /\ \E o \in Cache_add(cache, r1, key, n.rc) :
                    /\ cache' = o.cache
                    /\ rcs' = o.rcs
                    /\ ret' = [op |-> "add", key |-> key, result |-> None,
                               find_attempts |-> o.find_attempts]
           /\ handles' = IF keep THEN Append(handles, [rc |-> n.rc, value |-> value])
                         ELSE handles
    /\ lastOp' = "add"
    /\ UNCHANGED <<pc, dbVars, scanVars, blockVars>>

\* cache.add(key, rc) with an Rc the caller holds: moved into the cache, or with
\* keep a clone of it
add_held(key, i, keep) ==
    /\ pc = "cache"
    /\ i \in 1..Len(handles)
    /\ LET rc == handles[i].rc
           r1 == IF keep THEN Rc_clone(rcs, rc) ELSE rcs
       IN  \E o \in Cache_add(cache, r1, key, rc) :
                /\ cache' = o.cache
                /\ rcs' = o.rcs
                /\ ret' = [op |-> "add", key |-> key, result |-> None,
                           find_attempts |-> o.find_attempts]
    /\ handles' = IF keep THEN handles ELSE RemoveAt(handles, i)
    /\ lastOp' = "add"
    /\ UNCHANGED <<pc, dbVars, scanVars, blockVars>>

\* cache.get(key), the caller keeping the handle it gets
get(key) ==
    /\ pc = "cache"
    /\ LET g == Cache_get(cache, rcs, key)
       IN  /\ key \in DOMAIN cache.entries =>
                    /\ Len(handles) < MaxHandles
                    /\ cache.entries[key].use_count < MaxUseCount
           /\ cache' = g.cache
           /\ rcs' = g.rcs
           /\ handles' = IF g.result = None THEN handles
                         ELSE Append(handles, [rc |-> Unwrap(g.result),
                                               value |-> rcs[Unwrap(g.result)].value])
           /\ ret' = [op |-> "get", key |-> key, result |-> g.result]
    /\ lastOp' = "get"
    /\ UNCHANGED <<pc, dbVars, scanVars, blockVars>>

\* cache.evict(key)
evict(key) ==
    /\ pc = "cache"
    /\ LET e == Cache_evict(cache, rcs, key)
       IN  /\ cache' = e.cache
           /\ rcs' = e.rcs
           /\ ret' = [op |-> "evict", key |-> key, result |-> e.result]
    /\ lastOp' = "evict"
    /\ UNCHANGED <<pc, handles, dbVars, scanVars, blockVars>>

\* a caller drops handle i
drop_handle(i) ==
    /\ pc = "cache"
    /\ i \in 1..Len(handles)
    /\ rcs' = Rc_drop(rcs, handles[i].rc)
    /\ handles' = RemoveAt(handles, i)
    /\ ret' = None
    /\ lastOp' = "drop_handle"
    /\ UNCHANGED <<pc, cache, dbVars, scanVars, blockVars>>

NextCache ==
    \/ \E key \in 1..MaxKeys, value \in RowValues, keep \in BOOLEAN :
            add_fresh(key, value, keep)
    \/ \E key \in 1..MaxKeys, i \in 1..MaxHandles, keep \in BOOLEAN : add_held(key, i, keep)
    \/ \E key \in 1..MaxKeys : get(key)
    \/ \E key \in 1..MaxKeys : evict(key)
    \/ \E i \in 1..MaxHandles : drop_handle(i)

SpecCache == InitCache /\ [][NextCache]_vars

(***************************************************************************)
(* One call of Cache::check_capacity, a turn of its loop at a time, from   *)
(* any cache: any max_entries, any entries, each held outside the cache or *)
(* not, and any queue of evictables, keys that are not in the map and keys *)
(* queued twice included.                                                  *)
(***************************************************************************)
InitCapacity ==
    /\ \E max_entries \in 0..MaxKeys, keys \in SUBSET (1..MaxKeys),
          held \in SUBSET (1..MaxKeys),
          evictables \in UNION {[1..n -> 1..MaxKeys] : n \in 0..MaxKeys} :
            /\ held \subseteq keys
            /\ \E use_count \in [keys -> 0..MaxUseCount] :
                    cache = [entries |-> [k \in keys |->
                                            [use_count |-> use_count[k], rc |-> k]],
                             max_entries |-> max_entries,
                             evictables |-> evictables]
            /\ rcs = [i \in 1..MaxRcs |->
                        IF i \in held THEN [value |-> 1, strong |-> 2]
                        ELSE IF i \in keys THEN [value |-> 1, strong |-> 1]
                        ELSE FreeRc]
            /\ handles = LET order == CHOOSE s \in SeqsOfSet(held) :
                                        \A i, j \in DOMAIN s : i < j => s[i] < s[j]
                         IN  [i \in DOMAIN order |-> [rc |-> order[i], value |-> 1]]
    /\ ret = [op |-> "check_capacity", find_attempts |-> 0]
    /\ pc = "check_capacity"
    /\ lastOp = "new"
    /\ NoDatabase
    /\ scan = NoScan
    /\ emitted = <<>>
    /\ NoBlockTest

\* one turn of the loop of Cache::check_capacity, or its return
check_capacity_turn ==
    /\ pc = "check_capacity"
    /\ IF Cardinality(DOMAIN cache.entries) < cache.max_entries
       THEN /\ pc' = "returned"
            /\ UNCHANGED <<cache, rcs, ret>>
       ELSE IF cache.evictables # <<>>
       THEN /\ LET p == PopAndEvict(cache, rcs)
               IN  cache' = p.cache /\ rcs' = p.rcs
            /\ UNCHANGED <<pc, ret>>
       ELSE IF ret.find_attempts >= MAX_FIND_ATTEMPTS
       THEN /\ cache' = [cache EXCEPT !.entries = <<>>]
            /\ rcs' = DropAll(rcs, cache.entries,
                              CHOOSE keys \in SeqsOfSet(DOMAIN cache.entries) : TRUE)
            /\ pc' = "returned"
            /\ UNCHANGED ret
       ELSE /\ \E order \in SeqsOfSet({k \in DOMAIN cache.entries :
                                            cache.entries[k].use_count = 0}) :
                    LET p == PopAndEvict(FindEvictables(cache, order), rcs)
                    IN  cache' = p.cache /\ rcs' = p.rcs
            /\ ret' = [ret EXCEPT !.find_attempts = @ + 1]
            /\ UNCHANGED pc
    /\ lastOp' = "check_capacity"
    /\ UNCHANGED <<handles, dbVars, scanVars, blockVars>>

\* the call runs on until it returns: nothing else runs between its turns
SpecCapacity ==
    InitCapacity /\ [][check_capacity_turn]_vars /\ WF_vars(check_capacity_turn)

(***************************************************************************)
(* Database::open on a directory that holds the schema and one more file,  *)
(* whose name is a segment file name or any other name.                    *)
(***************************************************************************)
NameParts == {<<>>, <<"0">>, <<"1", "F">>, <<"+", "1">>, <<"g">>, TmpTail,
              <<"t", "m">>, <<"j", "s", "o", "n">>}

RECURSIVE NamesOfParts(_)
\* the names of at most n parts joined by dots
NamesOfParts(n) ==
    IF n = 1 THEN NameParts
    ELSE NamesOfParts(n - 1)
         \cup {f \o <<".">> \o q : f \in NamesOfParts(n - 1), q \in NameParts}

NameIds == {0, 1, 10, 255, 65536}

\* the names get_segment_path gives
SegmentNames ==
    {get_segment_path(<<t, n>>, visible) : t \in NameIds, n \in NameIds, visible \in BOOLEAN}

InitNames ==
    /\ \E f \in (NamesOfParts(MaxParts) \cup SegmentNames) \ {<<>>} :
            dir = (SCHEMA_FILENAME :> SegmentFile(<<>>, TRUE))
                    @@ (f :> SegmentFile(<<>>, TRUE))
    /\ pc = "closed"
    /\ lastOp = "close"
    /\ next_transaction_id = 0
    /\ committed_segments = {}
    /\ txn_id = None
    /\ horizon = 0
    /\ unsaved_blocks = <<>>
    /\ uncommitted_segments = <<>>
    /\ rows = <<>>
    /\ hist = HistInit
    /\ scan = NoScan
    /\ emitted = <<>>
    /\ NoBlockTest
    /\ NoCacheTest

NextNames == Database_open

SpecNames == InitNames /\ [][NextNames]_vars

(***************************************************************************)
(* The bytes of a segment file.  A byte is a number 0..255, a file is the  *)
(* sequence of its bytes, and a reader is the file and a position pos, the *)
(* number of bytes before the next one read.  A Result is None for Err and *)
(* Some(x) for Ok(x).                                                      *)
(***************************************************************************)
RECURSIVE WriteBE(_, _)
\* write_u16::<BE>, write_u32::<BE>, write_u64::<BE>, usize::to_be_bytes: the
\* low width bytes of n, the most significant first
WriteBE(n, width) ==
    IF width = 0 THEN <<>> ELSE WriteBE(n \div 256, width - 1) \o <<n % 256>>

RECURSIVE ReadBE(_)
\* read_u16::<BE>, read_u32::<BE>, read_u64::<BE> of bytes already read
ReadBE(bytes) ==
    IF bytes = <<>> THEN 0
    ELSE ReadBE(SubSeq(bytes, 1, Len(bytes) - 1)) * 256 + bytes[Len(bytes)]

\* zstd::stream::write::Encoder::new(file, 1), the writes and finish(): one
\* frame; the codec is outside the repository and stands here as a magic
\* number, the length, the data recoded byte by byte and a closing byte
Encoder(data) ==
    <<40, 181, 47, 253>> \o WriteBE(Len(data), 2)
        \o [i \in 1..Len(data) |-> (data[i] + 1) % 256] \o <<Len(data) % 256>>

\* zstd::stream::read::Decoder::with_buffer(src) read to the end of its frame:
\* the data and the position after the frame, or Err on anything but a frame
Decoder(src, pos) ==
    IF pos + 6 > Len(src) \/ SubSeq(src, pos + 1, pos + 4) # <<40, 181, 47, 253>>
    THEN None
    ELSE LET len == ReadBE(SubSeq(src, pos + 5, pos + 6))
         IN  IF pos + 6 + len + 1 > Len(src) \/ src[pos + 6 + len + 1] # len % 256
             THEN None
             ELSE Some([data |-> [i \in 1..len |-> (src[pos + 6 + i] + 255) % 256],
                        end |-> pos + 6 + len + 1])

TAG_PREFIX == <<77, 68, 58>>       \* "MD:"

\* write_tag: the six bytes of "MD:BLK", "MD:SEG" and "MD:END"
write_tag(tag) ==
    TAG_PREFIX \o (CASE tag = "Block" -> <<66, 76, 75>>
                     [] tag = "Segment" -> <<83, 69, 71>>
                     [] tag = "End" -> <<69, 78, 68>>)

\* read_expected_tag: Ok with the position after the tag, Err when the next six
\* bytes are not the tag
read_expected_tag(src, pos, tag) ==
    IF pos + 6 <= Len(src) /\ SubSeq(src, pos + 1, pos + 6) = write_tag(tag)
    THEN Some(pos + 6) ELSE None

\* check_for_prefix: read_exact of three bytes, Err when there are fewer, then
\* the seek back over them
check_for_prefix(src, pos) ==
    IF pos + 3 > Len(src) THEN None
    ELSE Some(SubSeq(src, pos + 1, pos + 3) = TAG_PREFIX)

\* a skip that steps over two bytes; C39 tells it from skip_to_next_tag
skip_two_to_next_tag(src, pos) ==
    IF check_for_prefix(src, pos) = None THEN None
    ELSE IF Unwrap(check_for_prefix(src, pos)) THEN Some(pos)
    ELSE IF check_for_prefix(src, pos + 2) = None THEN None
    ELSE IF ~Unwrap(check_for_prefix(src, pos + 2)) THEN None
    ELSE Some(pos + 2)

\* skip_to_next_tag: Ok with the position of the reader, or Err
skip_to_next_tag(src, pos) ==
    IF check_for_prefix(src, pos) = None THEN None
    ELSE IF Unwrap(check_for_prefix(src, pos)) THEN Some(pos)
    ELSE IF check_for_prefix(src, pos + 1) = None THEN None
    ELSE IF ~Unwrap(check_for_prefix(src, pos + 1)) THEN None
    ELSE Some(pos + 1)

\* Block::save: the frame of the dimension lists, one missing byte for each
\* slot of values, and the eight bytes of each value that is present
Block_save(block) ==
    LET dims == block.dimension_values
        DimBytes[k \in 0..Len(dims)] ==
            IF k = 0 THEN <<>>
            ELSE LET dim == dims[k]
                     Vals[j \in 0..Len(dim)] ==
                        IF j = 0 THEN <<>> ELSE Vals[j - 1] \o WriteBE(dim[j], 8)
                 IN  DimBytes[k - 1] \o WriteBE(Len(dim), 4) \o Vals[Len(dim)]
        missing_bytes == [i \in 1..Len(block.values) |->
                            IF block.values[i] # None THEN 0 ELSE 1]
        values_bytes[i \in 0..Len(block.values)] ==
            IF i = 0 THEN <<>>
            ELSE IF block.values[i] # None
            THEN values_bytes[i - 1] \o WriteBE(Unwrap(block.values[i]), 8)
            ELSE values_bytes[i - 1]
    IN  Encoder(WriteBE(Len(dims), 2) \o DimBytes[Len(dims)]
                    \o missing_bytes \o values_bytes[Len(block.values)])

\* Block::load from a reader: Ok with the block read and the position after the
\* frame, Err when the frame or the data in it ends early
Block_load(src, pos) ==
    LET decoder == Decoder(src, pos)
    IN  IF decoder = None THEN None
        ELSE
        LET data == Unwrap(decoder).data
            Enough(at, n) == at + n <= Len(data)
            num_dimensions == IF Enough(0, 2) THEN ReadBE(SubSeq(data, 1, 2)) ELSE 0
            \* the state after the first k dimensions: the dimension lists, the
            \* number of bytes read, and whether every read succeeded
            Dims[k \in 0..num_dimensions] ==
                IF k = 0 THEN [dimension_values |-> <<>>, at |-> 2, ok |-> Enough(0, 2)]
                ELSE LET p == Dims[k - 1]
                     IN  IF ~p.ok \/ ~Enough(p.at, 4) THEN [p EXCEPT !.ok = FALSE]
                         ELSE LET dim_size == ReadBE(SubSeq(data, p.at + 1, p.at + 4))
                              IN  IF ~Enough(p.at + 4, 8 * dim_size)
                                  THEN [p EXCEPT !.ok = FALSE]
                                  ELSE [dimension_values |->
                                            Append(p.dimension_values,
                                                [j \in 1..dim_size |->
                                                    ReadBE(SubSeq(data,
                                                                  p.at + 4 + 8 * (j - 1) + 1,
                                                                  p.at + 4 + 8 * j))]),
                                        at |-> p.at + 4 + 8 * dim_size,
                                        ok |-> TRUE]
            read == Dims[num_dimensions]
            num_values == Product([k \in 1..Len(read.dimension_values) |->
                                        Len(read.dimension_values[k])])
            missing_bytes == SubSeq(data, read.at + 1, read.at + num_values)
            \* the state after the first i missing bytes
            Values[i \in 0..num_values] ==
                IF i = 0 THEN [values |-> <<>>, at |-> read.at + num_values, ok |-> TRUE]
                ELSE LET p == Values[i - 1]
                     IN  IF ~p.ok THEN p
                         ELSE IF missing_bytes[i] = 1
                         THEN [p EXCEPT !.values = Append(@, None)]
                         ELSE IF ~Enough(p.at, 8) THEN [p EXCEPT !.ok = FALSE]
                         ELSE [values |-> Append(p.values,
                                            Some(ReadBE(SubSeq(data, p.at + 1, p.at + 8)))),
                               at |-> p.at + 8,
                               ok |-> TRUE]
        IN  IF ~read.ok \/ ~Enough(read.at, num_values) \/ ~Values[num_values].ok
            THEN None
            ELSE Some([block |-> [dimension_values |-> read.dimension_values,
                                  values |-> Values[num_values].values],
                       end |-> Unwrap(decoder).end])

\* Segment::save with save_block and save_segment_info: the bytes of the file
\* and the block_info of the Segment.  Block::save makes the frame of a block;
\* the bounds of a block are the first and the last value of each dimension
Segment_save(blocks) ==
    LET Written[i \in 0..Len(blocks)] ==
            IF i = 0 THEN <<>>
            ELSE Written[i - 1] \o write_tag("Block") \o Block_save(blocks[i])
        block_info == [i \in 1..Len(blocks) |->
            [min_bounds |-> [k \in 1..Len(blocks[i].dimension_values) |->
                                blocks[i].dimension_values[k][1]],
             max_bounds |-> [k \in 1..Len(blocks[i].dimension_values) |->
                                blocks[i].dimension_values[k][
                                    Len(blocks[i].dimension_values[k])]],
             block_pos |-> Len(Written[i - 1])]]
        segment_info_pos == Len(Written[Len(blocks)])
        Bounds(bounds) ==
            LET B[k \in 0..Len(bounds)] ==
                    IF k = 0 THEN <<>> ELSE B[k - 1] \o WriteBE(bounds[k], 8)
            IN  B[Len(bounds)]
        Info[i \in 0..Len(block_info)] ==
            IF i = 0 THEN WriteBE(Len(block_info), 2)
                            \o WriteBE(Len(block_info[1].min_bounds), 2)
            ELSE Info[i - 1] \o Bounds(block_info[i].min_bounds)
                    \o Bounds(block_info[i].max_bounds)
                    \o WriteBE(block_info[i].block_pos, 8)
    IN  [file |-> Written[Len(blocks)] \o write_tag("Segment")
                    \o Encoder(Info[Len(block_info)])
                    \o write_tag("End") \o WriteBE(segment_info_pos, 8),
         block_info |-> block_info]

\* Segment::load from the seek to the END trailer on, with load_segment_info:
\* Ok with block_info, or Err
load_segment_info(src) ==
    LET END_SIZE == 6 + 8
        end_tag == IF Len(src) < END_SIZE THEN None
                   ELSE read_expected_tag(src, Len(src) - END_SIZE, "End")
        segment_info_pos == ReadBE(SubSeq(src, Len(src) - 7, Len(src)))
        segment_tag == IF end_tag = None THEN None
                       ELSE read_expected_tag(src, segment_info_pos, "Segment")
        decoder == IF segment_tag = None THEN None
                   ELSE Decoder(src, Unwrap(segment_tag))
    IN  IF decoder = None THEN None
        ELSE
        LET data == Unwrap(decoder).data
            num_blocks == ReadBE(SubSeq(data, 1, 2))
            num_dims == ReadBE(SubSeq(data, 3, 4))
            size == 8 * (2 * num_dims + 1)
            U64(at) == ReadBE(SubSeq(data, at + 1, at + 8))
        IN  IF Len(data) < 4 \/ Len(data) < 4 + num_blocks * size THEN None
            ELSE Some([i \in 1..num_blocks |->
                        LET at == 4 + (i - 1) * size
                        IN  [min_bounds |-> [k \in 1..num_dims |-> U64(at + 8 * (k - 1))],
                             max_bounds |-> [k \in 1..num_dims |->
                                                U64(at + 8 * (num_dims + k - 1))],
                             block_pos |-> U64(at + 16 * num_dims)]])

\* a load that reads the first block whatever block_num is; C37 tells it from
\* load_one_block
load_first_block(src, block_info, block_num, hostage) ==
    LET block_tag == read_expected_tag(src, block_info[1].block_pos, "Block")
        loaded == IF block_tag = None THEN None ELSE Block_load(src, Unwrap(block_tag))
    IN  IF loaded = None THEN None ELSE Some(Unwrap(loaded).block)

\* Segment::load_one_block with load_block: Ok with the block, or Err.  After
\* the frame the decoder leaves the reader hostage bytes before its end, 0 or 1
load_one_block(src, block_info, block_num, hostage) ==
    LET block_tag == read_expected_tag(src, block_info[block_num + 1].block_pos, "Block")
        loaded == IF block_tag = None THEN None ELSE Block_load(src, Unwrap(block_tag))
    IN  IF loaded = None THEN None
        ELSE IF skip_to_next_tag(src, Unwrap(loaded).end - hostage) = None THEN None
        ELSE Some(Unwrap(loaded).block)

(***************************************************************************)
(* Blocks written and read back.  A block is made by Block::new and        *)
(* add_row, with slots set to None as the unit tests of BlockIter do, and  *)
(* is then saved and loaded on its own, or in a segment with other blocks; *)
(* or a reader stands before some bytes and skip_to_next_tag is called.    *)
(***************************************************************************)
InitStorage ==
    /\ \E d \in 0..MaxSavedDims : test_block = Block_new(d)
    /\ added = <<>>
    /\ pc \in {"block", "reader"}
    /\ pc = "reader" => test_block = Block_new(0)
    /\ lastOp = "new"
    /\ NoDatabase
    /\ scan = NoScan
    /\ emitted = <<>>
    /\ NoCacheTest

\* block.save(&mut file), then Block::new(0).load(&mut src) on the bytes written
Block_save_load ==
    /\ pc = "block"
    /\ LET src == Block_save(test_block)
       IN  ret' = [op |-> "Block_load", src |-> src, result |-> Block_load(src, 0)]
    /\ pc' = "stored"
    /\ lastOp' = "Block_load"
    /\ UNCHANGED <<dbVars, scanVars, blockVars, cache, rcs, handles>>

\* Segment::create of blocks that have rows, as flush passes them, then
\* Segment::load and load_one_block(block_num) on the file written
Segment_create_load(blocks, block_num, hostage) ==
    /\ pc = "block"
    /\ \A i \in 1..Len(blocks) : blocks[i].values # <<>>
    /\ block_num < Len(blocks)
    /\ LET segment == Segment_save(blocks)
           loaded == load_segment_info(segment.file)
       IN  ret' = [op |-> "load_one_block", blocks |-> blocks, src |-> segment.file,
                   created |-> segment.block_info, block_info |-> loaded,
                   block_num |-> block_num,
                   result |-> IF loaded = None \/ block_num >= Len(Unwrap(loaded))
                              THEN None
                              ELSE load_one_block(segment.file, Unwrap(loaded),
                                                  block_num, hostage)]
    /\ pc' = "stored"
    /\ lastOp' = "load_one_block"
    /\ UNCHANGED <<dbVars, scanVars, blockVars, cache, rcs, handles>>

\* skip_to_next_tag(&mut reader) with the reader at the start of src
skip_to_next_tag_step(src) ==
    /\ pc = "reader"
    /\ ret' = [op |-> "skip_to_next_tag", src |-> src, result |-> skip_to_next_tag(src, 0)]
    /\ pc' = "skipped"
    /\ lastOp' = "skip_to_next_tag"
    /\ UNCHANGED <<dbVars, scanVars, blockVars, cache, rcs, handles>>

\* add_row on a block of no dimensions stores into an empty values and panics,
\* so such a block stays as Block::new made it.  A segment is made of the block
\* built and, before or after it, a block of one row; the bytes before the
\* reader are at most MaxSkipBytes of the bytes of the prefix and one other byte
NextStorage ==
    \/ \E c \in [1..Len(test_block.dimension_values) -> 0..MaxDatum], v \in RowValues :
            test_block.dimension_values # <<>> /\ Block_add_row_step(c \o <<v>>)
    \/ \E i \in 0..(Len(test_block.values) - 1) : clear_value(i)
    \/ Block_save_load
    \/ /\ test_block.values # <<>>
       /\ LET d == Len(test_block.dimension_values)
              others == {<<Block_add_row(Block_new(d),
                                         [k \in 1..(d + 1) |-> IF k <= d THEN c ELSE 1])>> :
                            c \in 0..MaxBlockDatum}
          IN  \E before, after \in {<<>>} \cup others,
                 block_num \in 0..2, hostage \in 0..1 :
                    Segment_create_load(before \o <<test_block>> \o after,
                                        block_num, hostage)
    \/ \E src \in UNION {[1..n -> {77, 68, 58, 0}] : n \in 0..MaxSkipBytes} :
            skip_to_next_tag_step(src)

SpecStorage == InitStorage /\ [][NextStorage]_vars

(***************************************************************************)
(* The properties.                                                         *)
(***************************************************************************)
\* the coordinate of a row
Coord(row) == SubSeq(row, 1, NumDims)

\* the positions in a query result of the rows at coordinate c
RowsAt(rs, c) == {k \in 1..Len(rs) : Coord(rs[k].values_array) = c}

\* the temp files in directory d that carry transaction id t
TmpFilesOf(d, t) ==
    {f \in DOMAIN d : /\ decode_segment_path(f) # None
                      /\ Unwrap(decode_segment_path(f))[1] = t
                      /\ ~Unwrap(decode_segment_path(f))[3]}

\* the rows of the sources of the current transaction's query, each with the
\* txn_id of its source
SourceRows ==
    LET own == IF txn_id = None THEN 0 ELSE Unwrap(txn_id)
        committed == {seg \in committed_segments : seg[1] < horizon}
        of_blocks(t, blocks) ==
            UNION {{<<t, r>> : r \in Range(BlockRows(blocks[i]))} : i \in 1..Len(blocks)}
    IN  UNION {of_blocks(seg[1], dir[get_segment_path(seg, TRUE)].blocks) : seg \in committed}
        \cup UNION {of_blocks(uncommitted_segments[i].id[1],
                              uncommitted_segments[i].cached_blocks) :
                        i \in 1..Len(uncommitted_segments)}
        \cup UNION {{<<own, r>> : r \in Range(BlockRows(unsaved_blocks[key]))} :
                        key \in DOMAIN unsaved_blocks}

\* the query of a transaction that has written nothing
LaterReader == lastOp = "query" /\ txn_id = None /\ hist.written = NoWrites

\* C1: when the process stops during commit and the database is opened again,
\* the committed set holds every segment the transaction flushed or none of them
C1_CrashAtomicity ==
    (lastOp = "open" /\ hist.crash_pc = "commit") =>
        \A t \in 1..MaxTxnId :
            Cardinality({seg \in committed_segments : seg[1] = t})
                \in {0, hist.segs_created[t]}

\* C2: a query emits exactly one row for every coordinate present in a source,
\* none for another coordinate, and the row is that of a source with the highest
\* txn_id among the sources holding the coordinate
C2_ScanMerge ==
    lastOp = "query" =>
        /\ \A k \in 1..Len(rows) :
                \E sr \in SourceRows : Coord(sr[2]) = Coord(rows[k].values_array)
        /\ \A sr \in SourceRows :
                /\ Cardinality(RowsAt(rows, Coord(sr[2]))) = 1
                /\ \A k \in RowsAt(rows, Coord(sr[2])) :
                        \E best \in SourceRows :
                            /\ best[2] = rows[k].values_array
                            /\ \A other \in SourceRows :
                                  Coord(other[2]) = Coord(sr[2]) => other[1] <= best[1]

\* C3: a query that directly follows add_row(c, v) on the same transaction emits
\* the row (c, v), whether or not the transaction has an id
C3_ReadYourWrites ==
    (lastOp = "query" /\ hist.last_add # None) =>
        \E k \in 1..Len(rows) : rows[k].values_array = Unwrap(hist.last_add)

C5_CommitVisible ==
    /\ (lastOp = "commit_ok" /\ hist.ended_txn # None) =>
            /\ \A n \in 0..(hist.segs_created[Unwrap(hist.ended_txn)] - 1) :
                    /\ <<Unwrap(hist.ended_txn), n>> \in committed_segments
                    /\ get_segment_path(<<Unwrap(hist.ended_txn), n>>, TRUE) \in DOMAIN dir
            /\ uncommitted_segments = <<>>
    /\ (LaterReader /\ hist.faults = 0) =>
            \A c \in DOMAIN hist.last_committed :
                \E k \in 1..Len(rows) :
                    rows[k].values_array = <<c[1], c[2], hist.last_committed[c]>>

\* C6: when a transaction writes a coordinate, flushes and writes the coordinate
\* again, its own query made next and the query of a later transaction after the
\* commit emit exactly one row for the coordinate, with the value written last
C6_OverrideAcrossFlush ==
    /\ (lastOp = "query" /\ unsaved_blocks # <<>>) =>
            \A c \in hist.rewritten :
                /\ Cardinality(RowsAt(rows, c)) = 1
                /\ \A k \in RowsAt(rows, c) : rows[k].values_array[NumDims + 1] = hist.written[c]
    /\ (LaterReader /\ hist.faults = 0) =>
            \A c \in hist.last_rewritten :
                /\ Cardinality(RowsAt(rows, c)) = 1
                /\ \A k \in RowsAt(rows, c) :
                        rows[k].values_array[NumDims + 1] = hist.last_committed[c]

\* C7: the coordinates one Scan emits are strictly increasing in lexicographic
\* order: none is emitted twice and none after a larger one
C7_StrictlyIncreasing ==
    \A i, j \in 1..Len(emitted) :
        i < j =>
            LET a == emitted[i].values_array
                b == emitted[j].values_array
            IN  a[1] < b[1] \/ (a[1] = b[1] /\ a[2] < b[2])

\* a Scan has emitted three rows, taken from sources of two transactions
C7_Witness ==
    /\ Len(emitted) >= 3
    /\ \E i, j \in 1..Len(emitted) : emitted[i].txn_id # emitted[j].txn_id

C9_OpenRecovery ==
    /\ lastOp = "open" =>
            /\ \A f \in DOMAIN dir :
                    decode_segment_path(f) = None \/ Unwrap(decode_segment_path(f))[3]
            /\ committed_segments =
                    {<<e[1], e[2]>> : e \in {x \in DecodedNames(hist.dir_before_open) : x[3]}}
            /\ \A f \in DOMAIN hist.dir_before_open :
                    (decode_segment_path(f) = None \/ Unwrap(decode_segment_path(f))[3])
                        => f \in DOMAIN dir /\ dir[f] = hist.dir_before_open[f]
    /\ (LaterReader /\ hist.opened) =>
            \A sr \in SourceRows : RowsAt(rows, Coord(sr[2])) # {}

\* C10: after open next_transaction_id is 1 plus the largest id in the names of
\* the segment files open found, temp files included, and 1 when it found none;
\* an id allocated afterwards is greater than the id of each of those files
C10_NextIdAfterOpen ==
    /\ lastOp = "open" =>
            /\ \A i \in hist.ids_before_open : i < next_transaction_id
            /\ next_transaction_id - 1 \in hist.ids_before_open \cup {0}
    /\ (hist.opened /\ txn_id # None) =>
            \A i \in hist.ids_before_open : i < Unwrap(txn_id)

\* a transaction has got its id after an open that found temp files only
C10_Witness ==
    /\ hist.opened
    /\ txn_id # None
    /\ hist.ids_before_open # {}
    /\ committed_segments = {}

\* C11: every SegmentId in the committed set has a txn_id below
\* next_transaction_id
C11_CommittedBelowNext ==
    \A seg \in committed_segments : seg[1] < next_transaction_id

\* a transaction commits a segment on a handle that Database::open returned
C11_Witness ==
    /\ lastOp = "commit_segment"
    /\ hist.opened
    /\ Cardinality({seg[1] : seg \in committed_segments}) = 2

\* C12: while a handle lives next_transaction_id never decreases, whatever the
\* operation and whether it fails, and no id is allocated twice
C12_IdsNeverReused ==
    /\ [][(pc # "closed" /\ pc' # "closed")
            => next_transaction_id' >= next_transaction_id]_vars
    /\ [](\A i, j \in 1..Len(hist.assigned) :
            i # j => hist.assigned[i] # hist.assigned[j])

\* one handle has allocated two ids, the first to a transaction that was rolled
\* back, dropped or failed
C12_Witness ==
    /\ Len(hist.assigned) = 2
    /\ \A seg \in committed_segments : seg[1] # hist.assigned[1]

\* C18: a flush with no unsaved block changes neither the transaction's id, nor
\* next_transaction_id, the directory, the uncommitted list or the committed set;
\* the commit of a transaction that wrote nothing changes neither the directory
\* nor the committed set
C18_EmptyFlushNoOp ==
    [][/\ (lastOp' = "flush" /\ unsaved_blocks = <<>>)
            => UNCHANGED <<txn_id, next_transaction_id, dir, uncommitted_segments,
                           committed_segments>>
       /\ (pc \in {"txn", "commit"} /\ hist.written = NoWrites
                /\ lastOp' \in {"commit_flush", "commit_ok"})
            => UNCHANGED <<next_transaction_id, dir, committed_segments>>]_vars

\* a transaction that wrote nothing has committed on a database that holds a
\* committed segment
C18_Witness ==
    /\ lastOp = "commit_ok"
    /\ hist.written = NoWrites
    /\ hist.ended_txn = None
    /\ committed_segments # {}

\* C19 as stated: after a rename failed in commit the segments renamed before
\* are committed and visible, and every segment not yet renamed is still there
\* as a temp file; the next open removes the temp files
C19_RenameFailure ==
    /\ (lastOp = "commit_failed" /\ hist.failed_seg # None) =>
            LET t == Unwrap(hist.failed_seg)[1]
                n == Unwrap(hist.failed_seg)[2]
            IN  \A k \in 0..(hist.segs_created[t] - 1) :
                    IF k > n
                    THEN /\ <<t, k>> \in committed_segments
                         /\ get_segment_path(<<t, k>>, TRUE) \in DOMAIN dir
                    ELSE /\ <<t, k>> \notin committed_segments
                         /\ get_segment_path(<<t, k>>, FALSE) \in DOMAIN dir
    /\ lastOp = "open" => \A t \in 1..MaxTxnId : TmpFilesOf(dir, t) = {}

\* C19: after a rename failed in commit the segments renamed before are committed
\* and visible, the segment whose rename failed is still there as a temp file,
\* and the segments the loop had not reached are neither committed nor left as
\* files; the next open removes the temp files
C19_RenameFailureHeld ==
    /\ (lastOp = "commit_failed" /\ hist.failed_seg # None) =>
            LET t == Unwrap(hist.failed_seg)[1]
                n == Unwrap(hist.failed_seg)[2]
            IN  \A k \in 0..(hist.segs_created[t] - 1) :
                    /\ k > n => /\ <<t, k>> \in committed_segments
                                /\ get_segment_path(<<t, k>>, TRUE) \in DOMAIN dir
                                /\ get_segment_path(<<t, k>>, FALSE) \notin DOMAIN dir
                    /\ k = n => /\ <<t, k>> \notin committed_segments
                                /\ get_segment_path(<<t, k>>, FALSE) \in DOMAIN dir
                    /\ k < n => /\ <<t, k>> \notin committed_segments
                                /\ get_segment_path(<<t, k>>, FALSE) \notin DOMAIN dir
                                /\ get_segment_path(<<t, k>>, TRUE) \notin DOMAIN dir
    /\ lastOp = "open" => \A t \in 1..MaxTxnId : TmpFilesOf(dir, t) = {}

\* the rename of the second of two segments has failed after the first succeeded
C19_Witness ==
    /\ lastOp = "commit_failed"
    /\ hist.failed_seg # None
    /\ Unwrap(hist.failed_seg)[2] = 0
    /\ <<Unwrap(hist.failed_seg)[1], 1>> \in committed_segments

\* the slots of a block that hold a value
PresentSlots(blk) == {k \in 0..(Len(blk.values) - 1) : blk.values[k + 1] # None}

\* a is below b in the lexicographic order of the first n elements
LexLess(n, a, b) ==
    \E k \in 1..n : a[k] < b[k] /\ \A j \in 1..(k - 1) : a[j] = b[j]

\* a name of the form <hex>.<hex> or <hex>.<hex>.tmp
IsSegmentName(f) ==
    LET parts == Split(f)
        hex(q) == q # <<>> /\ \A i \in 1..Len(q) : IsHexDigit(q[i])
    IN  /\ Len(parts) \in {2, 3}
        /\ hex(parts[1])
        /\ hex(parts[2])
        /\ Len(parts) = 3 => parts[3] = TmpTail

\* C13: after any sequence of add_row calls the values array is as long as the
\* product of the lengths of the dimension-value lists, and every list is
\* strictly increasing
C13_BlockDensity ==
    pc = "block" =>
        /\ Len(test_block.values) = Product(Sizes(test_block))
        /\ \A d \in 1..Len(test_block.dimension_values) :
                \A i, j \in 1..Len(test_block.dimension_values[d]) :
                    i < j => test_block.dimension_values[d][i]
                                < test_block.dimension_values[d][j]

\* a block of three dimensions has grown to two values in each of them
C13_Witness ==
    /\ pc = "block"
    /\ Len(test_block.dimension_values) = 3
    /\ Len(test_block.values) = 8
    /\ lastOp = "add_row"

\* C14: the rows Block.iter yields are one per coordinate added, each with the
\* value of the last add_row at the coordinate, for a block of any number of
\* dimensions
C14_AddRowIndex ==
    pc = "block" =>
        /\ Range(BlockRows(test_block)) = {c \o <<added[c]>> : c \in DOMAIN added}
        /\ Len(BlockRows(test_block)) = Cardinality(DOMAIN added)

\* C15: Block.iter yields its rows in strictly increasing lexicographic order of
\* their coordinates, one row for every slot that holds a value and none for
\* another, and the block is as it was
C15_IterOrder ==
    pc = "block" =>
        LET rs == BlockRows(test_block)
            d == Len(test_block.dimension_values)
        IN  /\ \A i, j \in 1..Len(rs) : i < j => LexLess(d, rs[i], rs[j])
            /\ Len(rs) = Cardinality(PresentSlots(test_block))
            /\ Range(rs) = {SlotCoord(test_block, k) \o <<Unwrap(test_block.values[k + 1])>> :
                                k \in PresentSlots(test_block)}
            /\ BlockIter_next(Block_iter(test_block)).iter.block = test_block

\* a block of three dimensions holds three rows and an absent slot
C15_Witness ==
    /\ pc = "block"
    /\ Len(test_block.dimension_values) = 3
    /\ Len(BlockRows(test_block)) >= 3
    /\ \E k \in 0..(Len(test_block.values) - 1) : test_block.values[k + 1] = None

\* C16: a handle a caller holds refers to a live allocation with the value it
\* had when the caller got the handle, whatever add, get, evict and the capacity
\* check have done to the cache since
C16_HandleDurable ==
    pc = "cache" =>
        \A i \in 1..Len(handles) :
            /\ rcs[handles[i].rc].strong >= 1
            /\ rcs[handles[i].rc].value = handles[i].value

\* an add has emptied a full cache of pinned entries: two handles are held and
\* the cache holds neither value
C16_Witness ==
    /\ pc = "cache"
    /\ lastOp = "add"
    /\ Len(handles) = 2
    /\ handles[1].rc # handles[2].rc
    /\ \A i \in 1..Len(handles) :
            \A k \in DOMAIN cache.entries : cache.entries[k].rc # handles[i].rc

\* C17: evict(key) returns true and removes the entry exactly when the key is
\* present and no caller holds a handle to its value; otherwise it returns false
\* and leaves the map as it was
C17_EvictUnlessHeld ==
    [][lastOp' = "evict" =>
        LET key == ret'.key
            present == key \in DOMAIN cache.entries
            held == present /\ \E i \in 1..Len(handles) :
                                    handles[i].rc = cache.entries[key].rc
        IN  /\ ret'.result = (present /\ ~held)
            /\ ret'.result => cache'.entries = WithoutKey(cache.entries, key)
            /\ ~ret'.result => cache'.entries = cache.entries]_vars

\* C20: decode_segment_path gives back the id and the flag of every name
\* get_segment_path makes, and None for every name that is not of the form
\* <hex>.<hex> or <hex>.<hex>.tmp; open neither deletes nor registers a file
\* with such a name
C20_NameRoundTrip ==
    /\ \A t \in NameIds, n \in NameIds, visible \in BOOLEAN :
            decode_segment_path(get_segment_path(<<t, n>>, visible))
                = Some(<<t, n, visible>>)
    /\ \A f \in DOMAIN dir : ~IsSegmentName(f) => decode_segment_path(f) = None
    /\ lastOp = "open" =>
            \A f \in DOMAIN hist.dir_before_open :
                ~IsSegmentName(f) => f \in DOMAIN dir /\ committed_segments = {}

\* C21: commit makes the segments of a transaction visible one at a time in
\* descending order of segment number, segment 0 last, and while the commit has
\* not made segment 0 visible a temp file of the transaction is in the directory
C21_CommitOrder ==
    /\ [][(pc = "commit" /\ pc' = "commit" /\ committed_segments' # committed_segments) =>
            \E seg \in committed_segments' \ committed_segments :
                /\ committed_segments' = committed_segments \cup {seg}
                /\ seg[1] = Unwrap(txn_id)
                /\ get_segment_path(seg, TRUE) \in DOMAIN dir'
                /\ \A n \in 0..(hist.segs_created[seg[1]] - 1) :
                        IF n > seg[2]
                        THEN <<seg[1], n>> \in committed_segments
                        ELSE /\ <<seg[1], n>> \notin committed_segments
                             /\ get_segment_path(<<seg[1], n>>, TRUE) \notin DOMAIN dir]_vars
    /\ []((pc = "commit" /\ txn_id # None /\ hist.segs_created[Unwrap(txn_id)] > 0
                /\ <<Unwrap(txn_id), 0>> \notin committed_segments)
            => TmpFilesOf(dir, Unwrap(txn_id)) # {})

\* a commit of two segments has made segment 1 visible and segment 0 not yet
C21_Witness ==
    /\ pc = "commit"
    /\ lastOp = "commit_segment"
    /\ txn_id # None
    /\ <<Unwrap(txn_id), 1>> \in committed_segments
    /\ <<Unwrap(txn_id), 0>> \notin committed_segments
    /\ get_segment_path(<<Unwrap(txn_id), 0>>, FALSE) \in DOMAIN dir

\* C22: when add_dimension_value puts a new value on an axis of a block, at the
\* front, in the middle or at the end, every slot of the enlarged array whose
\* coordinate has the new value is absent, and every other slot holds what the
\* slot of the same coordinate held before, a value or nothing
C22_SliceExpansion ==
    pc = "block" =>
        \A dim_no \in 0..(Len(test_block.dimension_values) - 1) :
            \A value \in (0..MaxBlockDatum) \ Range(test_block.dimension_values[dim_no + 1]) :
                LET r == add_dimension_value(test_block, dim_no, value)
                    old(c) == CHOOSE k \in 0..(Len(test_block.values) - 1) :
                                    SlotCoord(test_block, k) = c
                IN  /\ Len(r.block.values) = Product(Sizes(r.block))
                    /\ Len(r.block.values) - Len(test_block.values)
                            = Cardinality({k \in 0..(Len(r.block.values) - 1) :
                                            SlotCoord(r.block, k)[dim_no + 1] = value})
                    /\ \A k \in 0..(Len(r.block.values) - 1) :
                            LET c == SlotCoord(r.block, k)
                            IN  IF c[dim_no + 1] = value
                                THEN r.block.values[k + 1] = None
                                ELSE r.block.values[k + 1] = test_block.values[old(c) + 1]

\* a block of three dimensions holds a value, and a new value fits in the middle
\* of its second axis and before and behind the value of its third
C22_Witness ==
    /\ pc = "block"
    /\ Len(test_block.dimension_values) = 3
    /\ test_block.dimension_values[1] = <<0, 1>>
    /\ test_block.dimension_values[2] = <<0, 2>>
    /\ test_block.dimension_values[3] = <<1>>
    /\ PresentSlots(test_block) # {}

\* C23 as stated: when add_dimension_value expands a block, move k of the
\* expansion is given the region that starts at k*len + offset and is len - offset
\* long, and the position k*len + offset + (k+1)*step to copy it to
C23_MoveRegion ==
    pc = "block" =>
        \A dim_no \in 0..(Len(test_block.dimension_values) - 1) :
            \A value \in (0..MaxBlockDatum) \ Range(test_block.dimension_values[dim_no + 1]) :
                LET params == get_slice_insertion_params(test_block, dim_no,
                                  binary_search(test_block.dimension_values[dim_no + 1],
                                                value).idx)
                IN  \A k \in 0..(params.moves - 1) :
                        SliceMove(params, k) =
                            [from_offset |-> k * params.len + params.offset,
                             to_offset |-> k * params.len + params.offset
                                            + (k + 1) * params.step,
                             num |-> params.len - params.offset]

\* C23: move k of the expansion is given the region that starts at k*len + offset
\* and is len long, and the position k*len + offset + (k+1)*step to copy it to;
\* the end of the array cuts the copy of the last move, and of no other, to
\* len - offset elements
C23_MoveRegionHeld ==
    pc = "block" =>
        \A dim_no \in 0..(Len(test_block.dimension_values) - 1) :
            \A value \in (0..MaxBlockDatum) \ Range(test_block.dimension_values[dim_no + 1]) :
                LET params == get_slice_insertion_params(test_block, dim_no,
                                  binary_search(test_block.dimension_values[dim_no + 1],
                                                value).idx)
                IN  \A k \in 0..(params.moves - 1) :
                        LET move == SliceMove(params, k)
                        IN  /\ move = [from_offset |-> k * params.len + params.offset,
                                       to_offset |-> k * params.len + params.offset
                                                      + (k + 1) * params.step,
                                       num |-> params.len]
                            /\ IF k = params.moves - 1
                               THEN params.new_size - move.to_offset
                                        = params.len - params.offset
                               ELSE move.to_offset + move.num <= params.new_size

\* a value fits behind the first value of the second axis of a block whose first
\* axis has two values: the expansion has two moves, each from inside its region
C23_Witness ==
    /\ pc = "block"
    /\ Len(test_block.dimension_values) = 2
    /\ Len(test_block.dimension_values[1]) = 2
    /\ test_block.dimension_values[2] = <<0, 2>>
    /\ get_slice_insertion_params(test_block, 1, 1).moves = 2
    /\ get_slice_insertion_params(test_block, 1, 1).offset = 1

\* C24: when Scan.next returns the end of the stream the queue and the live set
\* are empty, and a row has been emitted for every coordinate a source holds
C24_EndOnlyWhenEmpty ==
    pc = "scan_done" =>
        /\ scan.queue = <<>>
        /\ scan.live = <<>>
        /\ \A sr \in SourceRows :
                \E k \in 1..Len(emitted) : Coord(emitted[k].values_array) = Coord(sr[2])

\* C25: the start point of every item on the queue of a Scan whose source holds
\* a row is the smallest coordinate of the rows of the source: for a block the
\* coordinate of the first row its iterator yields, for a segment the smallest
\* over its blocks
C25_StartPointIsMinimum ==
    \A i \in 1..Len(scan.queue) :
        LET item == scan.queue[i]
            blocks == CASE item.item_type = "SegmentId" ->
                                dir[get_segment_path(item.payload, TRUE)].blocks
                        [] item.item_type = "Segment" -> item.payload.cached_blocks
                        [] item.item_type = "Block" -> <<item.payload>>
                        [] item.item_type = "SegmentBlock" -> <<item.payload.block>>
            firsts == {Coord(BlockRows(blocks[j])[1]) :
                            j \in {n \in 1..Len(blocks) : BlockRows(blocks[n]) # <<>>}}
        IN  firsts # {} =>
                /\ item.start_point \in firsts
                /\ \A c \in firsts : compare_points(NumDims, item.start_point, c) # 1

\* C26: every row a Scan emits is a row of one of its sources and carries the
\* txn_id of that source; a live block of a segment carries the txn_id of the
\* segment, and a live unsaved block that of the querying transaction, or 0
\* when the transaction has no id
C26_RowAttribution ==
    /\ \A k \in 1..Len(emitted) :
            <<emitted[k].txn_id, emitted[k].values_array>> \in SourceRows
    /\ \A i \in 1..Len(scan.live) :
            LET item == scan.live[i]
            IN  IF item.pin_rc = None
                THEN /\ item.txn_id = IF txn_id = None THEN 0 ELSE Unwrap(txn_id)
                     /\ \E key \in DOMAIN unsaved_blocks :
                            unsaved_blocks[key] = item.iter.block
                ELSE /\ item.txn_id = Unwrap(item.pin_rc)[1]
                     /\ \E f \in DOMAIN dir :
                            /\ decode_segment_path(f) # None
                            /\ Unwrap(decode_segment_path(f))[1] = item.txn_id
                            /\ item.iter.block \in Range(dir[f].blocks)

\* a Scan has emitted a row of a committed segment and a row of an unsaved block
\* of the querying transaction, which has an id
C26_Witness ==
    /\ pc \in {"scan", "scan_done"}
    /\ unsaved_blocks # <<>>
    /\ txn_id # None
    /\ \E i, j \in 1..Len(emitted) :
            /\ emitted[i].txn_id = 1
            /\ emitted[j].txn_id = Unwrap(txn_id)
            /\ \E key \in DOMAIN unsaved_blocks :
                    emitted[j].values_array \in Range(BlockRows(unsaved_blocks[key]))

\* C27: a flush of a transaction that has unsaved blocks takes the transaction's
\* id from the database if it has none, and only then; when it returns Ok it has
\* written exactly one temp file, named by that id and by the number of segments
\* flushed before, has appended that segment to the uncommitted list and has
\* emptied the unsaved map, and when it fails it has created no other file.  The
\* uncommitted segments are numbered 0, 1, ... in order and carry the
\* transaction's id
C27_FlushNumbering ==
    /\ [][(pc = "txn" /\ unsaved_blocks # <<>>
                /\ lastOp' \in {"flush", "commit_flush", "commit_failed"}) =>
            LET n == Len(uncommitted_segments)
                t == IF txn_id = None THEN next_transaction_id ELSE Unwrap(txn_id)
                path == get_segment_path(<<t, n>>, FALSE)
            IN  /\ next_transaction_id' =
                        IF txn_id = None THEN next_transaction_id + 1
                        ELSE next_transaction_id
                /\ pc' # "idle" => txn_id' = Some(t)
                /\ IF lastOp' # "commit_failed" /\ Len(uncommitted_segments') = n + 1
                   THEN /\ DOMAIN dir' = DOMAIN dir \cup {path}
                        /\ \A f \in DOMAIN dir \ {path} : dir'[f] = dir[f]
                        /\ dir'[path].complete
                        /\ Range(dir'[path].blocks)
                                = {unsaved_blocks[key] : key \in DOMAIN unsaved_blocks}
                        /\ uncommitted_segments' =
                                Append(uncommitted_segments,
                                       uncommitted_segments'[n + 1])
                        /\ uncommitted_segments'[n + 1].id = <<t, n>>
                        /\ uncommitted_segments'[n + 1].path = path
                        /\ unsaved_blocks' = <<>>
                   ELSE /\ DOMAIN dir' \subseteq DOMAIN dir \cup {path}
                        /\ lastOp' # "commit_failed" =>
                                uncommitted_segments' = uncommitted_segments]_vars
    /\ [](\A i \in 1..Len(uncommitted_segments) :
            /\ txn_id # None
            /\ uncommitted_segments[i].id = <<Unwrap(txn_id), i - 1>>
            /\ uncommitted_segments[i].path \in DOMAIN dir)

\* a transaction has flushed for the second time
C27_Witness ==
    /\ lastOp = "flush"
    /\ Len(uncommitted_segments) = 2
    /\ unsaved_blocks = <<>>
    /\ hist.nrows = 2

\* C28: a cache made with max_entries >= 1 never holds more than max_entries
\* entries, whatever add, get and evict calls were made and whatever handles
\* the callers hold
C28_CapacityBound ==
    pc = "cache" => Cardinality(DOMAIN cache.entries) <= cache.max_entries

\* an add to a full cache of two entries has evicted one of them, while a caller
\* holds a handle: the cache is full again and the capacity check has counted the
\* entry that stayed down to 0
C28_Witness ==
    /\ pc = "cache"
    /\ lastOp = "add"
    /\ cache.max_entries = 2
    /\ Cardinality(DOMAIN cache.entries) = 2
    /\ \E k \in DOMAIN cache.entries : cache.entries[k].use_count = 0
    /\ handles # <<>>

\* C29: an add to a cache that is at capacity, every entry of which a caller
\* holds a handle to, makes no more than 10 searches for evictables and empties
\* the map: after the add the map holds the added key alone, and every handle
\* held before refers to a live allocation with its value
C29_ForcedEmptying ==
    [][(pc = "cache" /\ lastOp' = "add"
            /\ Cardinality(DOMAIN cache.entries) >= cache.max_entries
            /\ \A k \in DOMAIN cache.entries :
                    \E i \in 1..Len(handles) : handles[i].rc = cache.entries[k].rc) =>
        /\ DOMAIN cache'.entries = {ret'.key}
        /\ ret'.find_attempts <= MAX_FIND_ATTEMPTS
        /\ \A i \in 1..Len(handles) :
                /\ rcs'[handles[i].rc].strong >= 1
                /\ rcs'[handles[i].rc].value = handles[i].value]_vars

\* an add has emptied a full cache of two entries with ten searches, and the
\* two handles the callers hold are to values the cache no longer has
C29_Witness ==
    /\ pc = "cache"
    /\ lastOp = "add"
    /\ cache.max_entries = 2
    /\ ret.find_attempts = MAX_FIND_ATTEMPTS
    /\ DOMAIN cache.entries = {ret.key}
    /\ Len(handles) = 2
    /\ handles[1].rc # handles[2].rc
    /\ \A i \in 1..Len(handles) : cache.entries[ret.key].rc # handles[i].rc

\* C30: every row of the unsaved block under key K has, in each dimension, a
\* coordinate between K_i * chunk_size_i and (K_i + 1) * chunk_size_i - 1; the
\* row of an add_row is in the block under the key of its quotients; and two
\* coordinates held by unsaved blocks are in one block exactly when their
\* quotients are equal in every dimension
C30_ChunkRouting ==
    LET quotients(c) == [i \in 1..NumDims |->
                            CHOOSE q \in 0..c[i] :
                                q * ChunkSize[i] <= c[i] /\ c[i] < (q + 1) * ChunkSize[i]]
        held(key) == {Coord(r) : r \in Range(BlockRows(unsaved_blocks[key]))}
    IN  /\ \A key \in DOMAIN unsaved_blocks :
                /\ held(key) # {}
                /\ \A c \in held(key) : quotients(c) = key
        /\ (lastOp = "add_row" /\ hist.last_add # None) =>
                LET values == Unwrap(hist.last_add)
                IN  /\ quotients(values) \in DOMAIN unsaved_blocks
                    /\ values \in Range(BlockRows(unsaved_blocks[quotients(values)]))
        /\ \A k1, k2 \in DOMAIN unsaved_blocks :
                \A c1 \in held(k1), c2 \in held(k2) :
                    (k1 = k2) <=> (quotients(c1) = quotients(c2))

\* a transaction holds two unsaved blocks after an add_row
C30_Witness ==
    /\ pc = "txn"
    /\ lastOp = "add_row"
    /\ Cardinality(DOMAIN unsaved_blocks) = 2

\* C31: the id of a transaction is at least its horizon and above the txn_id of
\* every committed segment visible to it, and when its query emits a row at a
\* coordinate that one of its own segments or unsaved blocks holds, the row is
\* one the transaction wrote and carries its id
C31_OwnRowWins ==
    /\ txn_id # None =>
            /\ Unwrap(txn_id) >= horizon
            /\ \A seg \in get_visible_committed_segments(committed_segments, horizon) :
                    seg[1] < Unwrap(txn_id)
    /\ (lastOp = "query" /\ txn_id # None) =>
            \A k \in 1..Len(rows) :
                (\E sr \in SourceRows :
                        /\ sr[1] = Unwrap(txn_id)
                        /\ Coord(sr[2]) = Coord(rows[k].values_array))
                    => /\ rows[k].txn_id = Unwrap(txn_id)
                       /\ <<Unwrap(txn_id), rows[k].values_array>> \in SourceRows

\* the query of a transaction with an id has emitted the transaction's row at a
\* coordinate that a visible committed segment holds too
C31_Witness ==
    /\ lastOp = "query"
    /\ txn_id # None
    /\ \E k \in 1..Len(rows) :
            /\ rows[k].txn_id = Unwrap(txn_id)
            /\ \E sr \in SourceRows :
                    /\ sr[1] < horizon
                    /\ Coord(sr[2]) = Coord(rows[k].values_array)

\* C32: a flush in which Segment::create fails leaves the map of unsaved blocks
\* as it was
C32_FailedFlushKeepsBlocks ==
    [][(pc = "txn" /\ lastOp' = "flush" /\ hist'.faults > hist.faults)
            => unsaved_blocks' = unsaved_blocks]_vars

\* C33: a rollback or a drop of a transaction, the drop after a failed commit
\* included, changes neither the committed set nor next_transaction_id, leaves
\* every visible segment file in place with its content and makes no file
\* visible; the drop after a commit that returned Ok changes no file
C33_RollbackFrame ==
    [][/\ ((pc = "txn" /\ lastOp' \in {"rollback", "drop"})
                \/ (pc = "commit" /\ lastOp' = "commit_failed")) =>
            /\ committed_segments' = committed_segments
            /\ next_transaction_id' = next_transaction_id
            /\ \A f \in DOMAIN dir :
                    (decode_segment_path(f) = None \/ Unwrap(decode_segment_path(f))[3])
                        => f \in DOMAIN dir' /\ dir'[f] = dir[f]
            /\ DOMAIN dir' \subseteq DOMAIN dir
       /\ lastOp' = "commit_ok" =>
            /\ dir' = dir
            /\ committed_segments' = committed_segments
            /\ next_transaction_id' = next_transaction_id]_vars

\* a transaction that had flushed a segment was rolled back or dropped on a
\* database with a committed segment, and its temp file is gone
C33_Witness ==
    /\ lastOp \in {"rollback", "drop"}
    /\ hist.ended_txn # None
    /\ hist.segs_created[Unwrap(hist.ended_txn)] >= 1
    /\ TmpFilesOf(dir, Unwrap(hist.ended_txn)) = {}
    /\ committed_segments # {}

\* C34: an entry that an add removes from the map by popping it off the queue of
\* evictables has use_count 0 when it is removed; stated for the adds that make
\* no search, in which every removal is such a pop and no use_count changes
\* before it
C34_EvictsUnusedOnly ==
    [][(pc = "cache" /\ lastOp' = "add" /\ ret'.find_attempts = 0) =>
        \A k \in DOMAIN cache.entries \ DOMAIN cache'.entries :
            cache.entries[k].use_count = 0]_vars

\* C35: a call of Cache::check_capacity returns from every cache it is called
\* on: with every entry held outside the cache, with queued keys that are not
\* in the map, and with max_entries 0
C35_CheckCapacityTerminates == <>(pc = "returned")

\* a call on a cache of max_entries 0 with entries held outside the cache has
\* returned, by the forced emptying after MAX_FIND_ATTEMPTS searches
C35_Witness ==
    /\ pc = "returned"
    /\ cache.max_entries = 0
    /\ ret.find_attempts = MAX_FIND_ATTEMPTS
    /\ cache.entries = <<>>
    /\ handles # <<>>
    /\ \A i \in 1..MaxRcs : rcs[i].strong <= 1

\* C36: between calls of Scan::next every item of the live set has a current
\* row, so the unwrap of item.current in the next call does not fail
C36_LiveHasCurrent ==
    \A i \in 1..Len(scan.live) : scan.live[i].current # None

\* the queue is empty and one item is live, while a row was emitted from an item
\* of another transaction: that item went live, was exhausted and was removed
C36_Witness ==
    /\ pc = "scan"
    /\ scan.queue = <<>>
    /\ Len(scan.live) = 1
    /\ \E k \in 1..Len(emitted) : emitted[k].txn_id # scan.live[1].txn_id

\* C39: skip_to_next_tag returns Ok with the reader where it was when the next
\* three bytes are "MD:", otherwise Ok with the reader one byte on when the
\* three bytes after that byte are "MD:", and Err in every other case; on Ok
\* the reader stands at the start of the prefix
C39_SkipToNextTag ==
    ret # None /\ ret.op = "skip_to_next_tag" =>
        LET src == ret.src
            PrefixAt(at) == at + 3 <= Len(src) /\ <<src[at + 1], src[at + 2], src[at + 3]>>
                                                    = <<77, 68, 58>>
        IN  /\ PrefixAt(0) => ret.result = Some(0)
            /\ (~PrefixAt(0) /\ PrefixAt(1)) => ret.result = Some(1)
            /\ (~PrefixAt(0) /\ ~PrefixAt(1)) => ret.result = None
            /\ ret.result # None => PrefixAt(Unwrap(ret.result))

\* a skip over one byte that is not the start of a prefix has returned Ok
C39_Witness ==
    /\ ret # None
    /\ ret.op = "skip_to_next_tag"
    /\ ret.result = Some(1)

\* C38: the block that Block::load reads from the bytes Block::save wrote has
\* the dimension lists and the values of the block saved, absent slots included
C38_BlockRoundTrip ==
    ret # None /\ ret.op = "Block_load" =>
        /\ ret.result # None
        /\ Unwrap(ret.result).block = test_block

\* the same, of the blocks that have a dimension or a value
C38_BlockRoundTripNonEmpty ==
    (ret # None /\ ret.op = "Block_load"
        /\ (test_block.dimension_values # <<>> \/ test_block.values # <<>>)) =>
        /\ ret.result # None
        /\ Unwrap(ret.result).block = test_block

\* a block of two dimensions with a present and an absent slot was saved and
\* loaded
C38_Witness ==
    /\ ret # None
    /\ ret.op = "Block_load"
    /\ ret.result # None
    /\ Len(test_block.dimension_values) = 2
    /\ \E i, j \in 1..Len(test_block.values) :
            test_block.values[i] = None /\ test_block.values[j] # None

\* the positions in src at which the six bytes of "MD:BLK" start
BlockTagOffsets(src) ==
    {at \in 0..(Len(src) - 6) : SubSeq(src, at + 1, at + 6) = <<77, 68, 58, 66, 76, 75>>}

\* C37: of a segment file written from blocks B_0..B_{n-1}, Segment::load reads
\* n BlockInfo entries through the offset in the END trailer, block_pos of
\* entry i is the offset of the i-th BLOCK tag, and load_one_block(i) returns
\* a block equal to B_i
C37_SegmentIndexRoundTrip ==
    ret # None /\ ret.op = "load_one_block" =>
        /\ ret.block_info # None
        /\ Len(Unwrap(ret.block_info)) = Len(ret.blocks)
        /\ Cardinality(BlockTagOffsets(ret.src)) = Len(ret.blocks)
        /\ \A i \in 1..Len(ret.blocks) :
                LET block_pos == Unwrap(ret.block_info)[i].block_pos
                IN  /\ block_pos \in BlockTagOffsets(ret.src)
                    /\ Cardinality({at \in BlockTagOffsets(ret.src) : at < block_pos}) = i - 1
        /\ ret.result = Some(ret.blocks[ret.block_num + 1])

\* the second of three blocks was loaded from a segment file
C37_Witness ==
    /\ ret # None
    /\ ret.op = "load_one_block"
    /\ Len(ret.blocks) = 3
    /\ ret.block_num = 1
    /\ ret.result = Some(test_block)
    /\ \E i \in 1..Len(test_block.values) : test_block.values[i] = None

====
